---------------------------- MODULE Spec2Model ----------------------------
(***************************************************************************)
(* Threshold-based analysis and health scoring of the System Analysis      *)
(* Tool: the Performance, Security and Resource analyzers                  *)
(* (src/src/analysis/*.py) over one metrics snapshot.                      *)
(*                                                                         *)
(* Python values are modelled as follows.  A dict is a function whose      *)
(* DOMAIN is the set of keys present; a list is a sequence; percentages    *)
(* and thresholds (floats in the source) are integers, which is exact for  *)
(* the comparisons >= and > the analyzers make; an f-string issue is a     *)
(* record [text, value] holding the fixed text and the formatted number.   *)
(* A call that raises yields the record [exception |-> kind] in place of    *)
(* its result.                                                             *)
(***************************************************************************)
EXTENDS Integers, Sequences, FiniteSets, TLC

VARIABLES
    config_data,            \* Config.config_data: the loaded YAML mapping
    performance_thresholds, \* PerformanceAnalyzer.thresholds
    resource_thresholds,    \* ResourceAnalyzer.thresholds
    security_checks,        \* SecurityAnalyzer.checks
    metrics,                \* the metrics snapshot handed to analyze
    performance_results,    \* what PerformanceAnalyzer.analyze returned
    security_results,       \* what SecurityAnalyzer.analyze returned
    resource_results,       \* what ResourceAnalyzer.analyze returned
    pc,                     \* the statement main is at ("none": main is not running)
    log,                    \* the records written with logging.info / logging.error
    report_path,            \* what report_generator.generate returned
    exit_status             \* the exit status of the process: empty while it runs

vars == <<config_data, performance_thresholds, resource_thresholds,
          security_checks, metrics, performance_results, security_results,
          resource_results, pc, log, report_path, exit_status>>

\* the variables only main writes
main_vars == <<pc, log, report_path, exit_status>>

-----------------------------------------------------------------------------
(* Python dict and list primitives *)

\* {} : the dict without keys (also [] : the list without elements)
EmptyDict == <<>>

\* d.get(k, default)
Get(d, k, default) == IF k \in DOMAIN d THEN d[k] ELSE default

\* a dict holding k only when present is TRUE (used to enumerate inputs)
Opt(present, k, v) == IF present THEN k :> v ELSE EmptyDict

\* None: what yaml.safe_load returns for a file, or a key, without content
None == [none |-> TRUE]

\* an exception of the given kind, in place of a returned value
Raise(kind) == [exception |-> kind]

Raised(v) == "exception" \in DOMAIN v

\* no analyze call has returned yet
NoResult == [pending |-> TRUE]

\* f"<text>{value}..." : the text of the message and the number formatted into it
Issue(text, value) == [text |-> text, value |-> value]

\* the elements of a list
Range(q) == {q[i] : i \in 1..Len(q)}

\* some of the keys holds None in the snapshot: metrics.get(key, {}) then
\* returns None, and the evaluator's first .get on it raises AttributeError
NoneAmong(m, keys) == \E k \in keys \cap DOMAIN m : m[k] = None

\* the keys of the sequence that are present, in the order of the sequence
RECURSIVE SelectKeys(_, _)
SelectKeys(keys, present) ==
    IF keys = <<>> THEN <<>>
    ELSE IF Head(keys) \in present
         THEN <<Head(keys)>> \o SelectKeys(Tail(keys), present)
         ELSE SelectKeys(Tail(keys), present)

-----------------------------------------------------------------------------
(* Health aggregation: the loop shared by the three analyzers *)

CriticalPenalty == 25
WarningPenalty == 10
CriticalCutoff == 50
WarningCutoff == 75
FullScore == 100

\* a list back to front
RECURSIVE Reversed(_)
Reversed(q) == IF q = <<>> THEN <<>> ELSE Reversed(Tail(q)) \o <<Head(q)>>

\* Items walking the keys from the last inserted to the first
Items_reversed(results, order, own) ==
    Reversed(SelectKeys(order \o <<own>>, DOMAIN results))

\* for component, result in results.items(): the keys of results in insertion
\* order; order lists the keys the analyzer inserts, own is the key of the
\* aggregate, inserted last when present
Items(results, order, own) ==
    SelectKeys(order \o <<own>>, DOMAIN results)

\* HealthStep without the skip of the aggregate's own entry
HealthStep_count_own(health, component, result, own) ==
    IF result.status = "critical"
    THEN [health EXCEPT !.score = @ - CriticalPenalty,
                        !.issues = @ \o result.issues]
    ELSE IF result.status = "warning"
    THEN [health EXCEPT !.score = @ - WarningPenalty,
                        !.issues = @ \o result.issues]
    ELSE health

\* HealthStep appending the issues of every category, Normal ones included
HealthStep_all_issues(health, component, result, own) ==
    IF component = own THEN health
    ELSE IF result.status = "critical"
         THEN [health EXCEPT !.score = @ - CriticalPenalty,
                             !.issues = @ \o result.issues]
    ELSE IF result.status = "warning"
         THEN [health EXCEPT !.score = @ - WarningPenalty,
                             !.issues = @ \o result.issues]
    ELSE [health EXCEPT !.issues = @ \o result.issues]

\* HealthStep with the two penalties exchanged
HealthStep_swapped(health, component, result, own) ==
    IF component = own THEN health
    ELSE IF result.status = "critical"
         THEN [health EXCEPT !.score = @ - WarningPenalty,
                             !.issues = @ \o result.issues]
    ELSE IF result.status = "warning"
         THEN [health EXCEPT !.score = @ - CriticalPenalty,
                             !.issues = @ \o result.issues]
    ELSE health

\* one iteration of the loop over results.items()
HealthStep(health, component, result, own) ==
    IF component = own THEN health
    ELSE IF result.status = "critical"
         THEN [health EXCEPT !.score = @ - CriticalPenalty,
                             !.issues = @ \o result.issues]
    ELSE IF result.status = "warning"
         THEN [health EXCEPT !.score = @ - WarningPenalty,
                             !.issues = @ \o result.issues]
    ELSE health

RECURSIVE HealthLoop(_, _, _, _)
HealthLoop(health, items, results, own) ==
    IF items = <<>> THEN health
    ELSE HealthLoop(HealthStep(health, Head(items), results[Head(items)], own),
                    Tail(items), results, own)

\* OverallStatus with the cutoffs excluded (< for <=)
OverallStatus_exclusive(health) ==
    IF health.score < CriticalCutoff THEN [health EXCEPT !.status = "critical"]
    ELSE IF health.score < WarningCutoff THEN [health EXCEPT !.status = "warning"]
    ELSE health

\* OverallStatus with the score floored at 0 (score = max(0, score))
OverallStatus_floored(health) ==
    LET floored == [health EXCEPT !.score = IF @ < 0 THEN 0 ELSE @]
    IN IF floored.score <= CriticalCutoff THEN [floored EXCEPT !.status = "critical"]
       ELSE IF floored.score <= WarningCutoff THEN [floored EXCEPT !.status = "warning"]
       ELSE floored

\* if score <= 50: critical / elif score <= 75: warning
OverallStatus(health) ==
    IF health.score <= CriticalCutoff THEN [health EXCEPT !.status = "critical"]
    ELSE IF health.score <= WarningCutoff THEN [health EXCEPT !.status = "warning"]
    ELSE health

-----------------------------------------------------------------------------
(* Usage-percentage evaluators (CPU, Memory, Disk, Swap) *)

\* UsageCheck with the boundaries excluded (> for >=)
UsageCheck_exclusive(results, label, threshold) ==
    IF results.usage > threshold.critical
    THEN [results EXCEPT !.status = "critical",
                         !.issues = @ \o <<Issue(label \o " usage is critically high", results.usage)>>]
    ELSE IF results.usage > threshold.warning
    THEN [results EXCEPT !.status = "warning",
                         !.issues = @ \o <<Issue(label \o " usage is high", results.usage)>>]
    ELSE results

\* UsageCheck testing the warning threshold before the critical one
UsageCheck_warning_first(results, label, threshold) ==
    IF results.usage >= threshold.warning
    THEN [results EXCEPT !.status = "warning",
                         !.issues = @ \o <<Issue(label \o " usage is high", results.usage)>>]
    ELSE IF results.usage >= threshold.critical
    THEN [results EXCEPT !.status = "critical",
                         !.issues = @ \o <<Issue(label \o " usage is critically high", results.usage)>>]
    ELSE results

\* UsageCheck setting the Warning status without recording an issue
UsageCheck_unreported(results, label, threshold) ==
    IF results.usage >= threshold.critical
    THEN [results EXCEPT !.status = "critical",
                         !.issues = @ \o <<Issue(label \o " usage is critically high", results.usage)>>]
    ELSE IF results.usage >= threshold.warning
    THEN [results EXCEPT !.status = "warning"]
    ELSE results

\* if results['usage'] >= threshold['critical']: ... elif results['usage'] >= threshold['warning']: ...
UsageCheck(results, label, threshold) ==
    IF results.usage >= threshold.critical
    THEN [results EXCEPT !.status = "critical",
                         !.issues = @ \o <<Issue(label \o " usage is critically high", results.usage)>>]
    ELSE IF results.usage >= threshold.warning
    THEN [results EXCEPT !.status = "warning",
                         !.issues = @ \o <<Issue(label \o " usage is high", results.usage)>>]
    ELSE results

-----------------------------------------------------------------------------
(* PerformanceAnalyzer *)

PerformanceDefaults ==
    [cpu    |-> [warning |-> 80, critical |-> 90],
     memory |-> [warning |-> 75, critical |-> 85],
     disk   |-> [warning |-> 80, critical |-> 90]]

\* MergeThresholds keeping the default pair of a metric whose configured
\* values would leave warning above critical
MergeThresholds_ordered(thresholds, config_thresholds) ==
    IF \E metric \in DOMAIN thresholds \cap DOMAIN config_thresholds :
           config_thresholds[metric] = None
    THEN Raise("TypeError")
    ELSE [metric \in DOMAIN thresholds |->
             IF metric \in DOMAIN config_thresholds
             THEN LET merged == config_thresholds[metric] @@ thresholds[metric]
                  IN IF merged.warning <= merged.critical THEN merged
                     ELSE thresholds[metric]
             ELSE thresholds[metric]]

\* thresholds[metric].update(values) for every configured metric the defaults
\* know; dict.update(None) raises TypeError
MergeThresholds(thresholds, config_thresholds) ==
    IF \E metric \in DOMAIN thresholds \cap DOMAIN config_thresholds :
           config_thresholds[metric] = None
    THEN Raise("TypeError")
    ELSE [metric \in DOMAIN thresholds |->
             IF metric \in DOMAIN config_thresholds
             THEN config_thresholds[metric] @@ thresholds[metric]
             ELSE thresholds[metric]]

\* the lookup of analysis.<domain>.<key> in config_data, shared by the three
\* loaders: the value found, NotConfigured when a level is missing, and the
\* TypeError of "'analysis' in None" when config_data is None
NotConfigured == [configured |-> FALSE]

ConfigSection(config, domain, key) ==
    IF config = None THEN Raise("TypeError")
    ELSE IF "analysis" \in DOMAIN config
            /\ domain \in DOMAIN config.analysis
            /\ key \in DOMAIN config.analysis[domain]
         THEN config.analysis[domain][key]
         ELSE NotConfigured

\* the body of _load_thresholds after the defaults; None.items() raises
\* AttributeError
LoadThresholds(defaults, section) ==
    IF Raised(section) THEN section
    ELSE IF section = NotConfigured THEN defaults
    ELSE IF section = None THEN Raise("AttributeError")
    ELSE MergeThresholds(defaults, section)

Perf_load_thresholds(config) ==
    LoadThresholds(PerformanceDefaults, ConfigSection(config, "performance", "thresholds"))

\* Perf_analyze_cpu reading the percentage under the key the collector writes
Perf_analyze_cpu_percent(cpu_metrics, thresholds) ==
    UsageCheck([usage  |-> Get(cpu_metrics, "usage_percent", 0),
                status |-> "normal",
                issues |-> <<>>],
               "CPU", thresholds.cpu)

Perf_analyze_cpu(cpu_metrics, thresholds) ==
    UsageCheck([usage  |-> Get(cpu_metrics, "usage", 0),
                status |-> "normal",
                issues |-> <<>>],
               "CPU", thresholds.cpu)

Perf_analyze_memory(memory_metrics, thresholds) ==
    UsageCheck([usage     |-> Get(memory_metrics, "usage", 0),
                available |-> Get(memory_metrics, "available", 0),
                total     |-> Get(memory_metrics, "total", 0),
                status    |-> "normal",
                issues    |-> <<>>],
               "Memory", thresholds.memory)

Perf_analyze_disk(disk_metrics, thresholds) ==
    UsageCheck([usage  |-> Get(disk_metrics, "usage", 0),
                free   |-> Get(disk_metrics, "free", 0),
                total  |-> Get(disk_metrics, "total", 0),
                status |-> "normal",
                issues |-> <<>>],
               "Disk", thresholds.disk)

Perf_analyze_network(network_metrics) ==
    [bytes_sent   |-> Get(network_metrics, "bytes_sent", 0),
     bytes_recv   |-> Get(network_metrics, "bytes_recv", 0),
     packets_sent |-> Get(network_metrics, "packets_sent", 0),
     packets_recv |-> Get(network_metrics, "packets_recv", 0),
     status       |-> "normal",
     issues       |-> <<>>]

HighCpuLimit == 50
HighMemoryLimit == 5
ProcessCountLimit == 5

\* the processes of the list whose field exceeds limit (a missing field reads 0),
\* in order, each reduced to pid, name and the field (process.get(..) of a
\* missing key is None: the key stays absent here)
RECURSIVE HighProcesses(_, _, _)
HighProcesses(processes, fld, limit) ==
    IF processes = <<>> THEN <<>>
    ELSE LET process == Head(processes)
             rest == HighProcesses(Tail(processes), fld, limit)
         IN IF Get(process, fld, 0) > limit
            THEN <<[p \in {"pid", "name", fld} \cap DOMAIN process |-> process[p]]>> \o rest
            ELSE rest

\* ProcessCountCheck escalating to Critical instead of Warning
ProcessCountCheck_critical(results, key, text) ==
    IF Len(results[key]) > ProcessCountLimit
    THEN [results EXCEPT !.status = "critical",
                         !.issues = @ \o <<Issue(text, Len(results[key]))>>]
    ELSE results

\* ProcessCountCheck escalating at five entries already (>= for >)
ProcessCountCheck_inclusive(results, key, text) ==
    IF Len(results[key]) >= ProcessCountLimit
    THEN [results EXCEPT !.status = "warning",
                         !.issues = @ \o <<Issue(text, Len(results[key]))>>]
    ELSE results

\* if len(results[key]) > 5: warning
ProcessCountCheck(results, key, text) ==
    IF Len(results[key]) > ProcessCountLimit
    THEN [results EXCEPT !.status = "warning",
                         !.issues = @ \o <<Issue(text, Len(results[key]))>>]
    ELSE results

Perf_analyze_processes(processes) ==
    LET results == [total       |-> Len(processes),
                    high_cpu    |-> HighProcesses(processes, "cpu_percent", HighCpuLimit),
                    high_memory |-> HighProcesses(processes, "memory_percent", HighMemoryLimit),
                    status      |-> "normal",
                    issues      |-> <<>>]
    IN ProcessCountCheck(
           ProcessCountCheck(results, "high_cpu",
                             "High number of CPU-intensive processes"),
           "high_memory", "High number of memory-intensive processes")

PerfCategories == <<"cpu", "memory", "disk", "network", "processes">>

Perf_calculate_health(results) ==
    OverallStatus(
        HealthLoop([status |-> "healthy", score |-> FullScore, issues |-> <<>>],
                   Items(results, PerfCategories, "health"), results, "health"))

\* Perf_analyze reading the category with metrics['cpu'] instead of metrics.get('cpu', {})
Perf_analyze_subscript(m, thresholds) ==
    IF "cpu" \notin DOMAIN m THEN Raise("KeyError")
    ELSE
    LET results == [cpu       |-> Perf_analyze_cpu(m["cpu"], thresholds),
                    memory    |-> Perf_analyze_memory(Get(m, "memory", EmptyDict), thresholds),
                    disk      |-> Perf_analyze_disk(Get(m, "disk", EmptyDict), thresholds),
                    network   |-> Perf_analyze_network(Get(m, "network", EmptyDict)),
                    processes |-> Perf_analyze_processes(Get(m, "processes", <<>>))]
    IN ("health" :> Perf_calculate_health(results)) @@ results

Perf_analyze(m, thresholds) ==
    LET results == [cpu       |-> Perf_analyze_cpu(Get(m, "cpu", EmptyDict), thresholds),
                    memory    |-> Perf_analyze_memory(Get(m, "memory", EmptyDict), thresholds),
                    disk      |-> Perf_analyze_disk(Get(m, "disk", EmptyDict), thresholds),
                    network   |-> Perf_analyze_network(Get(m, "network", EmptyDict)),
                    processes |-> Perf_analyze_processes(Get(m, "processes", <<>>))]
    IN IF NoneAmong(m, {"cpu", "memory", "disk", "network"}) THEN Raise("AttributeError")
       ELSE ("health" :> Perf_calculate_health(results)) @@ results

-----------------------------------------------------------------------------
(* ResourceAnalyzer *)

ResourceDefaults ==
    [disk   |-> [warning |-> 80, critical |-> 90],
     memory |-> [warning |-> 75, critical |-> 85],
     swap   |-> [warning |-> 70, critical |-> 80]]

Res_load_thresholds(config) ==
    LoadThresholds(ResourceDefaults, ConfigSection(config, "resources", "thresholds"))

Res_analyze_disk(disk_metrics, thresholds) ==
    UsageCheck([usage  |-> Get(disk_metrics, "usage", 0),
                free   |-> Get(disk_metrics, "free", 0),
                total  |-> Get(disk_metrics, "total", 0),
                status |-> "normal",
                issues |-> <<>>],
               "Disk", thresholds.disk)

\* Res_analyze_memory with the thresholds excluded (> for >=), unlike the
\* Performance evaluator
Res_analyze_memory_exclusive(memory_metrics, thresholds) ==
    UsageCheck_exclusive([usage     |-> Get(memory_metrics, "usage", 0),
                          available |-> Get(memory_metrics, "available", 0),
                          total     |-> Get(memory_metrics, "total", 0),
                          status    |-> "normal",
                          issues    |-> <<>>],
                         "Memory", thresholds.memory)

Res_analyze_memory(memory_metrics, thresholds) ==
    UsageCheck([usage     |-> Get(memory_metrics, "usage", 0),
                available |-> Get(memory_metrics, "available", 0),
                total     |-> Get(memory_metrics, "total", 0),
                status    |-> "normal",
                issues    |-> <<>>],
               "Memory", thresholds.memory)

Res_analyze_swap(swap_metrics, thresholds) ==
    UsageCheck([usage  |-> Get(swap_metrics, "usage", 0),
                free   |-> Get(swap_metrics, "free", 0),
                total  |-> Get(swap_metrics, "total", 0),
                status |-> "normal",
                issues |-> <<>>],
               "Swap", thresholds.swap)

\* 1024 * 1024 * 1024 bytes
LargeFileLimit == 1073741824

\* LargeFiles counting a file of exactly 1 GiB as well (>= for >)
LargeFiles_inclusive(largest_files) ==
    SelectSeq(largest_files, LAMBDA f : Get(f, "size", 0) >= LargeFileLimit)

\* [f for f in largest_files if f.get('size', 0) > 1024 * 1024 * 1024]
LargeFiles(largest_files) ==
    SelectSeq(largest_files, LAMBDA f : Get(f, "size", 0) > LargeFileLimit)

Res_analyze_file_system(fs_metrics) ==
    LET results == [total_files   |-> Get(fs_metrics, "total_files", 0),
                    total_dirs    |-> Get(fs_metrics, "total_dirs", 0),
                    largest_files |-> Get(fs_metrics, "largest_files", <<>>),
                    status        |-> "normal",
                    issues        |-> <<>>]
        large_files == LargeFiles(results.largest_files)
    IN IF large_files # <<>>
       THEN [results EXCEPT !.status = "warning",
                            !.issues = @ \o <<Issue("files larger than 1GB", Len(large_files))>>]
       ELSE results

\* the processes whose status is 'zombie', in order, each reduced to pid and name
RECURSIVE ZombieProcesses(_)
ZombieProcesses(processes) ==
    IF processes = <<>> THEN <<>>
    ELSE LET process == Head(processes)
             rest == ZombieProcesses(Tail(processes))
         IN IF "status" \in DOMAIN process /\ process.status = "zombie"
            THEN <<[p \in {"pid", "name"} \cap DOMAIN process |-> process[p]]>> \o rest
            ELSE rest

Res_analyze_processes(processes) ==
    LET results == [total       |-> Len(processes),
                    high_cpu    |-> HighProcesses(processes, "cpu_percent", HighCpuLimit),
                    high_memory |-> HighProcesses(processes, "memory_percent", HighMemoryLimit),
                    zombie      |-> ZombieProcesses(processes),
                    status      |-> "normal",
                    issues      |-> <<>>]
        zombies == IF results.zombie # <<>>
                   THEN [results EXCEPT !.status = "warning",
                                        !.issues = @ \o <<Issue("zombie processes", Len(results.zombie))>>]
                   ELSE results
    IN ProcessCountCheck(
           ProcessCountCheck(zombies, "high_cpu",
                             "High number of CPU-intensive processes"),
           "high_memory", "High number of memory-intensive processes")

ResCategories == <<"disk", "memory", "swap", "file_system", "processes">>

Res_calculate_health(results) ==
    OverallStatus(
        HealthLoop([status |-> "healthy", score |-> FullScore, issues |-> <<>>],
                   Items(results, ResCategories, "health"), results, "health"))

Res_analyze(m, thresholds) ==
    LET results == [disk        |-> Res_analyze_disk(Get(m, "disk", EmptyDict), thresholds),
                    memory      |-> Res_analyze_memory(Get(m, "memory", EmptyDict), thresholds),
                    swap        |-> Res_analyze_swap(Get(m, "swap", EmptyDict), thresholds),
                    file_system |-> Res_analyze_file_system(Get(m, "file_system", EmptyDict)),
                    processes   |-> Res_analyze_processes(Get(m, "processes", <<>>))]
    IN IF NoneAmong(m, {"disk", "memory", "swap", "file_system"}) THEN Raise("AttributeError")
       ELSE ("health" :> Res_calculate_health(results)) @@ results

-----------------------------------------------------------------------------
(* SecurityAnalyzer *)

SecurityCheckNames ==
    {"open_ports", "running_services", "system_updates", "firewall_status",
     "antivirus_status", "ssl_certificates"}

\* Sec_load_security_checks taking the configured value of a known check
\* (checks[check] = config_checks[check])
Sec_load_security_checks_configured(config) ==
    LET checks == [check \in SecurityCheckNames |-> TRUE]
        section == ConfigSection(config, "security", "checks")
        config_checks == IF section = NotConfigured THEN {} ELSE DOMAIN section
    IN IF Raised(section) THEN section
       ELSE IF section = None THEN Raise("TypeError")
       ELSE [check \in DOMAIN checks |->
                IF check \in config_checks THEN section[check] ELSE checks[check]]

\* checks starts with every known check True; for check in config_checks:
\* if check in checks: checks[check] = True
Sec_load_security_checks(config) ==
    LET checks == [check \in SecurityCheckNames |-> TRUE]
        section == ConfigSection(config, "security", "checks")
        config_checks == IF section = NotConfigured THEN {} ELSE DOMAIN section
    IN IF Raised(section) THEN section
       ELSE IF section = None THEN Raise("TypeError")
       ELSE [check \in DOMAIN checks |->
                IF check \in config_checks THEN TRUE ELSE checks[check]]

\* vulnerable_ports: port number -> service name
VulnerablePorts ==
    (21 :> "FTP") @@ (22 :> "SSH") @@ (23 :> "Telnet") @@ (25 :> "SMTP") @@ (3389 :> "RDP")

\* the loop over ports: every record whose port number is a key of
\* vulnerable_ports is appended to results['open'] (a record without 'port'
\* reads None, which is no key)
RECURSIVE VulnerableOpen(_)
VulnerableOpen(ports) ==
    IF ports = <<>> THEN <<>>
    ELSE LET port == Head(ports)
             rest == VulnerableOpen(Tail(ports))
         IN IF "port" \in DOMAIN port /\ port.port \in DOMAIN VulnerablePorts
            THEN <<[port    |-> port.port,
                    service |-> VulnerablePorts[port.port],
                    state   |-> Get(port, "state", "unknown")]>> \o rest
            ELSE rest

Sec_analyze_ports(ports) ==
    LET results == [total  |-> Len(ports),
                    open   |-> VulnerableOpen(ports),
                    status |-> "normal",
                    issues |-> <<>>]
    IN IF results.open # <<>>
       THEN [results EXCEPT !.status = "warning",
                            !.issues = @ \o <<Issue("potentially vulnerable ports open", Len(results.open))>>]
       ELSE results

VulnerableServices == {"telnet", "ftp", "rsh", "rlogin", "rexec"}

\* str.lower() on the service names of the model: an upper-case letter becomes
\* its lower-case letter, every other character stays
UpperNames == ("FTP" :> "ftp") @@ ("Telnet" :> "telnet") @@ ("SSHD" :> "sshd")

Lower(name) == IF name \in DOMAIN UpperNames THEN UpperNames[name] ELSE name

\* the loop over services: every record whose lowercased name (a missing name
\* reads '') is a vulnerable service is appended to results['vulnerable']
RECURSIVE VulnerableRunning(_)
VulnerableRunning(services) ==
    IF services = <<>> THEN <<>>
    ELSE LET service == Head(services)
             name == Lower(Get(service, "name", ""))
             rest == VulnerableRunning(Tail(services))
         IN IF name \in VulnerableServices
            THEN <<[name   |-> name,
                    status |-> Get(service, "status", "unknown")]>> \o rest
            ELSE rest

Sec_analyze_services(services) ==
    LET results == [total      |-> Len(services),
                    vulnerable |-> VulnerableRunning(services),
                    status     |-> "normal",
                    issues     |-> <<>>]
    IN IF results.vulnerable # <<>>
       THEN [results EXCEPT !.status = "warning",
                            !.issues = @ \o <<Issue("potentially vulnerable services running",
                                                    Len(results.vulnerable))>>]
       ELSE results

Sec_analyze_updates(updates) ==
    LET results == [last_update       |-> Get(updates, "last_update", "unknown"),
                    updates_available |-> Get(updates, "updates_available", 0),
                    status            |-> "normal",
                    issues            |-> <<>>]
    IN IF results.updates_available > 0
       THEN [results EXCEPT !.status = "warning",
                            !.issues = @ \o <<Issue("updates available", results.updates_available)>>]
       ELSE results

\* Sec_analyze_firewall taking a firewall without rules for a disabled one
Sec_analyze_firewall_rules(firewall) ==
    LET results == [enabled |-> Get(firewall, "enabled", FALSE),
                    rules   |-> Get(firewall, "rules", <<>>),
                    status  |-> "normal",
                    issues  |-> <<>>]
    IN IF ~results.enabled \/ results.rules = <<>>
       THEN [results EXCEPT !.status = "critical",
                            !.issues = @ \o <<[text |-> "Firewall is not enabled"]>>]
       ELSE results

Sec_analyze_firewall(firewall) ==
    LET results == [enabled |-> Get(firewall, "enabled", FALSE),
                    rules   |-> Get(firewall, "rules", <<>>),
                    status  |-> "normal",
                    issues  |-> <<>>]
    IN IF ~results.enabled
       THEN [results EXCEPT !.status = "critical",
                            !.issues = @ \o <<[text |-> "Firewall is not enabled"]>>]
       ELSE results

\* Sec_analyze_antivirus reading a missing enabled field as true
Sec_analyze_antivirus_default_on(antivirus) ==
    LET results == [enabled   |-> Get(antivirus, "enabled", TRUE),
                    last_scan |-> Get(antivirus, "last_scan", "unknown"),
                    status    |-> "normal",
                    issues    |-> <<>>]
    IN IF ~results.enabled
       THEN [results EXCEPT !.status = "critical",
                            !.issues = @ \o <<[text |-> "Antivirus is not enabled"]>>]
       ELSE results

Sec_analyze_antivirus(antivirus) ==
    LET results == [enabled   |-> Get(antivirus, "enabled", FALSE),
                    last_scan |-> Get(antivirus, "last_scan", "unknown"),
                    status    |-> "normal",
                    issues    |-> <<>>]
    IN IF ~results.enabled
       THEN [results EXCEPT !.status = "critical",
                            !.issues = @ \o <<[text |-> "Antivirus is not enabled"]>>]
       ELSE results

\* the loop over ssl_certs: a certificate goes to 'expired' when its expired
\* field is true, else to 'expiring_soon' when that field is true
ExpiredCerts(ssl_certs) ==
    SelectSeq(ssl_certs, LAMBDA cert : Get(cert, "expired", FALSE))

ExpiringSoonCerts(ssl_certs) ==
    SelectSeq(ssl_certs, LAMBDA cert : ~Get(cert, "expired", FALSE)
                                       /\ Get(cert, "expiring_soon", FALSE))

\* Sec_analyze_ssl testing expiring_soon before expired
Sec_analyze_ssl_soon_first(ssl_certs) ==
    LET results == [total         |-> Len(ssl_certs),
                    expired       |-> ExpiredCerts(ssl_certs),
                    expiring_soon |-> ExpiringSoonCerts(ssl_certs),
                    status        |-> "normal",
                    issues        |-> <<>>]
    IN IF results.expiring_soon # <<>>
       THEN [results EXCEPT !.status = "warning",
                            !.issues = @ \o <<Issue("SSL certificates expiring soon",
                                                    Len(results.expiring_soon))>>]
       ELSE IF results.expired # <<>>
       THEN [results EXCEPT !.status = "critical",
                            !.issues = @ \o <<Issue("expired SSL certificates", Len(results.expired))>>]
       ELSE results

Sec_analyze_ssl(ssl_certs) ==
    LET results == [total         |-> Len(ssl_certs),
                    expired       |-> ExpiredCerts(ssl_certs),
                    expiring_soon |-> ExpiringSoonCerts(ssl_certs),
                    status        |-> "normal",
                    issues        |-> <<>>]
    IN IF results.expired # <<>>
       THEN [results EXCEPT !.status = "critical",
                            !.issues = @ \o <<Issue("expired SSL certificates", Len(results.expired))>>]
       ELSE IF results.expiring_soon # <<>>
       THEN [results EXCEPT !.status = "warning",
                            !.issues = @ \o <<Issue("SSL certificates expiring soon",
                                                    Len(results.expiring_soon))>>]
       ELSE results

SecCategories == <<"ports", "services", "updates", "firewall", "antivirus", "ssl">>

Sec_calculate_security_score(results) ==
    OverallStatus(
        HealthLoop([score |-> FullScore, status |-> "secure", issues |-> <<>>],
                   Items(results, SecCategories, "security_score"), results,
                   "security_score"))

\* Sec_analyze handing the process list to the Services evaluator
Sec_analyze_processes_as_services(m) ==
    LET results == [ports     |-> Sec_analyze_ports(Get(m, "ports", <<>>)),
                    services  |-> Sec_analyze_services(Get(m, "processes", <<>>)),
                    updates   |-> Sec_analyze_updates(Get(m, "updates", EmptyDict)),
                    firewall  |-> Sec_analyze_firewall(Get(m, "firewall", EmptyDict)),
                    antivirus |-> Sec_analyze_antivirus(Get(m, "antivirus", EmptyDict)),
                    ssl       |-> Sec_analyze_ssl(Get(m, "ssl", <<>>))]
    IN ("security_score" :> Sec_calculate_security_score(results)) @@ results

Sec_analyze(m) ==
    LET results == [ports     |-> Sec_analyze_ports(Get(m, "ports", <<>>)),
                    services  |-> Sec_analyze_services(Get(m, "services", <<>>)),
                    updates   |-> Sec_analyze_updates(Get(m, "updates", EmptyDict)),
                    firewall  |-> Sec_analyze_firewall(Get(m, "firewall", EmptyDict)),
                    antivirus |-> Sec_analyze_antivirus(Get(m, "antivirus", EmptyDict)),
                    ssl       |-> Sec_analyze_ssl(Get(m, "ssl", <<>>))]
    IN IF NoneAmong(m, {"updates", "firewall", "antivirus"}) THEN Raise("AttributeError")
       ELSE ("security_score" :> Sec_calculate_security_score(results)) @@ results

-----------------------------------------------------------------------------
(* MetricsCollector: the snapshot collect_all builds from the readings *)

\* _collect_cpu_metrics: psutil.cpu_percent goes under usage_percent
Collect_cpu_metrics(cpu_percent) ==
    [usage_percent |-> cpu_percent,
     count         |-> 4,
     count_logical |-> 8,
     frequency     |-> [current |-> 2400, min |-> 800, max |-> 3600],
     times         |-> [user |-> 10, system |-> 5, idle |-> 85, iowait |-> 0],
     load_average  |-> <<1, 1, 1>>]

\* _collect_memory_metrics: psutil.virtual_memory() under virtual,
\* psutil.swap_memory() under swap, each with its percent under usage
Collect_memory_metrics(memory_percent, swap_percent) ==
    [virtual |-> [total |-> 1000, available |-> 1000 - 10 * memory_percent,
                  used |-> 10 * memory_percent, free |-> 1000 - 10 * memory_percent,
                  usage |-> memory_percent],
     swap    |-> [total |-> 1000, used |-> 10 * swap_percent,
                  free |-> 1000 - 10 * swap_percent, usage |-> swap_percent]]

\* _collect_disk_metrics: one record per partition, with its percent under
\* usage, in the list partitions; the I/O counters under io
Collect_disk_metrics(partition_percents) ==
    [partitions |-> [i \in 1..Len(partition_percents) |->
                        [device |-> "/dev/sda", mountpoint |-> "/", fstype |-> "ext4",
                         opts |-> "rw", total |-> 1000,
                         used |-> 10 * partition_percents[i],
                         free |-> 1000 - 10 * partition_percents[i],
                         usage |-> partition_percents[i]]],
     io         |-> [read_bytes |-> 1, write_bytes |-> 1, read_count |-> 1,
                     write_count |-> 1, read_time |-> 1, write_time |-> 1]]

\* _collect_network_metrics: the I/O counters go under io
Collect_network_metrics ==
    [io          |-> [bytes_sent |-> 7, bytes_recv |-> 7, packets_sent |-> 3,
                      packets_recv |-> 3, errin |-> 0, errout |-> 0, dropin |-> 0,
                      dropout |-> 0],
     connections |-> 2,
     interfaces  |-> <<[name |-> "lo", addresses |-> <<>>]>>]

\* _collect_process_metrics: one record per process, with the six attributes
Collect_process_metrics(processes) ==
    [i \in 1..Len(processes) |->
        [pid |-> processes[i].pid, name |-> processes[i].name, username |-> "root",
         status |-> processes[i].status, cpu_percent |-> processes[i].cpu_percent,
         memory_percent |-> processes[i].memory_percent]]

\* _collect_file_system_metrics: the counts and the files above 1 MB, largest first
Collect_file_system_metrics(files) ==
    [total_files |-> 12, total_dirs |-> 3, largest_files |-> files]

\* collect_all: the snapshot built from the readings of psutil and os.walk
Collect_all(cpu_percent, memory_percent, swap_percent, partition_percents, processes, files) ==
    [timestamp   |-> "2024-01-01T00:00:00",
     system      |-> [hostname |-> "host", platform |-> "Linux"],
     cpu         |-> Collect_cpu_metrics(cpu_percent),
     memory      |-> Collect_memory_metrics(memory_percent, swap_percent),
     disk        |-> Collect_disk_metrics(partition_percents),
     network     |-> Collect_network_metrics,
     processes   |-> Collect_process_metrics(processes),
     file_system |-> Collect_file_system_metrics(files)]

-----------------------------------------------------------------------------
(* Operations *)

\* performance_results = performance_analyzer.analyze(metrics)
PerformanceAnalyze ==
    /\ performance_results' = Perf_analyze(metrics, performance_thresholds)
    /\ UNCHANGED <<config_data, performance_thresholds, resource_thresholds,
                   security_checks, metrics, security_results, resource_results>>
    /\ UNCHANGED main_vars

\* security_results = security_analyzer.analyze(metrics)
SecurityAnalyze ==
    /\ security_results' = Sec_analyze(metrics)
    /\ UNCHANGED <<config_data, performance_thresholds, resource_thresholds,
                   security_checks, metrics, performance_results, resource_results>>
    /\ UNCHANGED main_vars

\* ResourceAnalyze taking each category out of the snapshot it was handed
\* (metrics.pop(key, {}) for metrics.get(key, {}))
ResourceAnalyze_consuming ==
    /\ resource_results' = Res_analyze(metrics, resource_thresholds)
    /\ metrics' = [k \in DOMAIN metrics \ Range(ResCategories) |-> metrics[k]]
    /\ UNCHANGED <<config_data, performance_thresholds, resource_thresholds,
                   security_checks, performance_results, security_results>>
    /\ UNCHANGED main_vars

\* resource_results = resource_analyzer.analyze(metrics)
ResourceAnalyze ==
    /\ resource_results' = Res_analyze(metrics, resource_thresholds)
    /\ UNCHANGED <<config_data, performance_thresholds, resource_thresholds,
                   security_checks, metrics, performance_results, security_results>>
    /\ UNCHANGED main_vars

Next == PerformanceAnalyze \/ SecurityAnalyze \/ ResourceAnalyze

\* results['health'] = self._calculate_health(results), on a results mapping
\* that may already hold an aggregate
PerformanceCalculateHealth ==
    /\ performance_results # NoResult
    /\ performance_results' =
           ("health" :> Perf_calculate_health(performance_results)) @@ performance_results
    /\ UNCHANGED <<config_data, performance_thresholds, resource_thresholds,
                   security_checks, metrics, security_results, resource_results>>
    /\ UNCHANGED main_vars

SecurityCalculateScore ==
    /\ security_results # NoResult
    /\ security_results' =
           ("security_score" :> Sec_calculate_security_score(security_results))
               @@ security_results
    /\ UNCHANGED <<config_data, performance_thresholds, resource_thresholds,
                   security_checks, metrics, performance_results, resource_results>>
    /\ UNCHANGED main_vars

ResourceCalculateHealth ==
    /\ resource_results # NoResult
    /\ resource_results' =
           ("health" :> Res_calculate_health(resource_results)) @@ resource_results
    /\ UNCHANGED <<config_data, performance_thresholds, resource_thresholds,
                   security_checks, metrics, performance_results, security_results>>
    /\ UNCHANGED main_vars

NextAgg == PerformanceCalculateHealth \/ SecurityCalculateScore \/ ResourceCalculateHealth

\* PerformanceAnalyzer(config): self.thresholds = self._load_thresholds()
PerformanceAnalyzerInit ==
    /\ performance_thresholds' = Perf_load_thresholds(config_data)
    /\ UNCHANGED <<config_data, resource_thresholds, security_checks, metrics,
                   performance_results, security_results, resource_results>>
    /\ UNCHANGED main_vars

\* ResourceAnalyzer(config): self.thresholds = self._load_thresholds()
ResourceAnalyzerInit ==
    /\ resource_thresholds' = Res_load_thresholds(config_data)
    /\ UNCHANGED <<config_data, performance_thresholds, security_checks, metrics,
                   performance_results, security_results, resource_results>>
    /\ UNCHANGED main_vars

\* SecurityAnalyzer(config): self.checks = self._load_security_checks()
SecurityAnalyzerInit ==
    /\ security_checks' = Sec_load_security_checks(config_data)
    /\ UNCHANGED <<config_data, performance_thresholds, resource_thresholds, metrics,
                   performance_results, security_results, resource_results>>
    /\ UNCHANGED main_vars

NextLoad == PerformanceAnalyzerInit \/ ResourceAnalyzerInit \/ SecurityAnalyzerInit

-----------------------------------------------------------------------------
(* Inputs *)

MaxPorts == 2
MaxCerts == 2
MaxProcesses == 6
MaxFiles == 2

\* all sequences over S of length at most n
RECURSIVE SeqsUpTo(_, _)
SeqsUpTo(S, n) ==
    IF n = 0 THEN {<<>>}
    ELSE LET shorter == SeqsUpTo(S, n - 1)
         IN shorter \cup {<<x>> \o q : x \in S, q \in {r \in shorter : Len(r) = n - 1}}

UsageCategories == {"cpu", "memory", "disk", "swap"}

\* usage percentages on and next to every default and configured threshold
UsageValues == {0, 69, 70, 74, 75, 79, 80, 84, 85, 89, 90, 100}

ThresholdValues == {70, 80, 90}

UsageRecords ==
    {Opt(pu, "usage", u) @@ Opt(pt, "total", 1000) :
        pu \in BOOLEAN, u \in UsageValues, pt \in BOOLEAN}

\* the values configured for one metric: warning, critical, both or neither
ThresholdOverrides ==
    {Opt(pw, "warning", w) @@ Opt(pk, "critical", c) :
        pw \in BOOLEAN, w \in ThresholdValues, pk \in BOOLEAN, c \in ThresholdValues}

\* configurations overriding the thresholds of metric k in both analyzers
ThresholdConfigs(k) ==
    {EmptyDict} \cup
    {[analysis |-> [performance |-> [thresholds |-> (k :> ov)],
                    resources   |-> [thresholds |-> (k :> ov)]]] :
        ov \in ThresholdOverrides}

FirewallRecords ==
    {Opt(pe, "enabled", e) @@ Opt(pr, "rules", r) :
        pe \in BOOLEAN, e \in BOOLEAN, pr \in BOOLEAN,
        r \in {<<>>, <<"allow 22">>, <<"deny all", "allow 443">>}}

AntivirusRecords ==
    {Opt(pe, "enabled", e) @@ Opt(ps, "last_scan", "2024-01-01") :
        pe \in BOOLEAN, e \in BOOLEAN, ps \in BOOLEAN}

CertRecords ==
    {Opt(px, "expired", x) @@ Opt(ps, "expiring_soon", y) :
        px \in BOOLEAN, x \in BOOLEAN, ps \in BOOLEAN, y \in BOOLEAN}

PortRecords ==
    {Opt(pp, "port", n) @@ Opt(ps, "state", st) :
        pp \in BOOLEAN, n \in {22, 3389, 8080}, ps \in BOOLEAN, st \in {"open", "closed"}}

ServiceRecords ==
    {Opt(pn, "name", n) @@ Opt(ps, "status", st) :
        pn \in BOOLEAN, n \in {"ftp", "FTP", "Telnet", "SSHD", "nginx"},
        ps \in BOOLEAN, st \in {"running", "stopped"}}

UpdateRecords ==
    {Opt(pl, "last_update", "2024-01-01") @@ Opt(pa, "updates_available", a) :
        pl \in BOOLEAN, pa \in BOOLEAN, a \in {0, 1, 3}}

\* one process, with every combination of fields present and values on and
\* next to the two fixed limits
ProcessRecords ==
    {Opt(pu, "cpu_percent", c) @@ Opt(pm, "memory_percent", m) @@ Opt(ps, "status", st) :
        pu \in BOOLEAN, c \in {50, 51}, pm \in BOOLEAN, m \in {5, 6},
        ps \in BOOLEAN, st \in {"running", "zombie"}}

\* n processes like process, with pids first + 1 .. first + n
ProcessBlock(process, n, first) ==
    [i \in 1..n |-> [pid |-> first + i, name |-> "worker"] @@ process]

\* process lists with a chosen number of CPU-intensive, of memory-intensive
\* and of zombie processes
ProcessLists ==
    {ProcessBlock([cpu_percent |-> 51, memory_percent |-> 5, status |-> "running"], a, 0)
         \o ProcessBlock([cpu_percent |-> 50, memory_percent |-> 6, status |-> "sleeping"], b, 100)
         \o ProcessBlock([cpu_percent |-> 0, memory_percent |-> 0, status |-> "zombie"], z, 200) :
        a \in 0..MaxProcesses, b \in 0..MaxProcesses, z \in 0..1}
    \cup {<<r>> : r \in ProcessRecords}

FileRecords ==
    {Opt(pp, "path", "/var/log/a") @@ Opt(ps, "size", size) :
        pp \in BOOLEAN, ps \in BOOLEAN,
        size \in {0, LargeFileLimit - 1, LargeFileLimit, LargeFileLimit + 1}}

FileSystemRecords ==
    {Opt(pt, "total_files", 12) @@ Opt(pl, "largest_files", q) :
        pt \in BOOLEAN, pl \in BOOLEAN, q \in SeqsUpTo(FileRecords, MaxFiles)}

\* snapshots holding one category, with every shape of its record
SingleSnapshots ==
    {EmptyDict}
    \cup {"processes" :> q : q \in ProcessLists}
    \cup {"file_system" :> r : r \in FileSystemRecords}
    \cup {"firewall" :> r : r \in FirewallRecords}
    \cup {"antivirus" :> r : r \in AntivirusRecords}
    \cup {"ssl" :> q : q \in SeqsUpTo(CertRecords, MaxCerts)}
    \cup {"ports" :> q : q \in SeqsUpTo(PortRecords, MaxPorts)}
    \cup {"services" :> <<r>> : r \in ServiceRecords}
    \cup {"updates" :> r : r \in UpdateRecords}

\* the three analyzers as constructed from config
Constructed(config) ==
    /\ config_data = config
    /\ performance_thresholds = Perf_load_thresholds(config)
    /\ resource_thresholds = Res_load_thresholds(config)
    /\ security_checks = Sec_load_security_checks(config)

NoResults ==
    /\ performance_results = NoResult
    /\ security_results = NoResult
    /\ resource_results = NoResult

\* the analyzers are driven directly, main is not running
MainIdle ==
    /\ pc = "none"
    /\ log = <<>>
    /\ report_path = <<>>
    /\ exit_status = <<>>

\* one category per snapshot: a usage category under configured thresholds,
\* or a security category under the defaults
InitEval ==
    /\ \/ \E k \in UsageCategories :
             /\ \E config \in ThresholdConfigs(k) : Constructed(config)
             /\ metrics \in {k :> r : r \in UsageRecords}
       \/ /\ Constructed(EmptyDict)
          /\ metrics \in SingleSnapshots
    /\ NoResults
    /\ MainIdle

\* a busy process that is also a zombie
Hog(pid) ==
    [pid |-> pid, name |-> "worker", cpu_percent |-> 90, memory_percent |-> 10,
     status |-> "zombie"]

\* per category: the empty record or list, a record lacking the field the
\* evaluator decides on, and a record driving the evaluator to its worst status
CoarseUsage == {EmptyDict, [total |-> 1000], [usage |-> 100, total |-> 1000]}

CoarseProcesses ==
    {<<>>, <<EmptyDict>>, <<Hog(1), Hog(2), Hog(3), Hog(4), Hog(5), Hog(6)>>}

CoarsePerformance ==
    [cpu       |-> CoarseUsage,
     memory    |-> CoarseUsage,
     disk      |-> CoarseUsage,
     network   |-> {EmptyDict, [bytes_sent |-> 7, packets_recv |-> 3]},
     processes |-> CoarseProcesses]

CoarseResources ==
    [disk        |-> CoarseUsage,
     memory      |-> CoarseUsage,
     swap        |-> CoarseUsage,
     file_system |-> {EmptyDict,
                      [largest_files |-> <<[path |-> "/a"]>>],
                      [total_files |-> 2, largest_files |-> <<[path |-> "/a", size |-> LargeFileLimit + 1]>>]},
     processes   |-> CoarseProcesses]

CoarseSecurity ==
    [ports     |-> {<<>>, <<EmptyDict>>, <<[port |-> 22, state |-> "open"]>>},
     services  |-> {<<>>, <<EmptyDict>>, <<[name |-> "Telnet", status |-> "running"]>>},
     updates   |-> {EmptyDict, [last_update |-> "2024-01-01"], [updates_available |-> 3]},
     firewall  |-> {EmptyDict, [rules |-> <<"allow 22">>], [enabled |-> TRUE]},
     antivirus |-> {EmptyDict, [last_scan |-> "2024-01-01"], [enabled |-> TRUE]},
     ssl       |-> {<<>>, <<EmptyDict>>, <<[expired |-> TRUE]>>}]

\* the snapshots of one domain: any subset of its categories present, each
\* with one of its values
PerformanceSnapshots ==
    {Opt(p1, "cpu", v1) @@ Opt(p2, "memory", v2) @@ Opt(p3, "disk", v3)
         @@ Opt(p4, "network", v4) @@ Opt(p5, "processes", v5) :
        p1 \in BOOLEAN, v1 \in CoarsePerformance.cpu,
        p2 \in BOOLEAN, v2 \in CoarsePerformance.memory,
        p3 \in BOOLEAN, v3 \in CoarsePerformance.disk,
        p4 \in BOOLEAN, v4 \in CoarsePerformance.network,
        p5 \in BOOLEAN, v5 \in CoarsePerformance.processes}

ResourceSnapshots ==
    {Opt(p1, "disk", v1) @@ Opt(p2, "memory", v2) @@ Opt(p3, "swap", v3)
         @@ Opt(p4, "file_system", v4) @@ Opt(p5, "processes", v5) :
        p1 \in BOOLEAN, v1 \in CoarseResources.disk,
        p2 \in BOOLEAN, v2 \in CoarseResources.memory,
        p3 \in BOOLEAN, v3 \in CoarseResources.swap,
        p4 \in BOOLEAN, v4 \in CoarseResources.file_system,
        p5 \in BOOLEAN, v5 \in CoarseResources.processes}

SecuritySnapshots ==
    {Opt(p1, "ports", v1) @@ Opt(p2, "services", v2) @@ Opt(p3, "updates", v3)
         @@ Opt(p4, "firewall", v4) @@ Opt(p5, "antivirus", v5) @@ Opt(p6, "ssl", v6) :
        p1 \in BOOLEAN, v1 \in CoarseSecurity.ports,
        p2 \in BOOLEAN, v2 \in CoarseSecurity.services,
        p3 \in BOOLEAN, v3 \in CoarseSecurity.updates,
        p4 \in BOOLEAN, v4 \in CoarseSecurity.firewall,
        p5 \in BOOLEAN, v5 \in CoarseSecurity.antivirus,
        p6 \in BOOLEAN, v6 \in CoarseSecurity.ssl}

DomainSnapshots == PerformanceSnapshots \cup ResourceSnapshots \cup SecuritySnapshots

\* what a snapshot may hold for the Performance categories next to other content
PerformanceVariants ==
    {EmptyDict} \cup
    {[cpu |-> v1, memory |-> [usage |-> 0, total |-> 1000], disk |-> EmptyDict,
      network |-> [bytes_sent |-> 7, packets_recv |-> 3], processes |-> v5] :
        v1 \in CoarsePerformance.cpu, v5 \in CoarsePerformance.processes}

\* what a snapshot may hold for the Security categories next to other content
SecurityVariants ==
    {EmptyDict} \cup
    {[ports |-> v1, services |-> <<[name |-> "nginx", status |-> "running"]>>,
      updates |-> EmptyDict, firewall |-> v4, antivirus |-> [enabled |-> TRUE],
      ssl |-> <<>>] :
        v1 \in CoarseSecurity.ports, v4 \in CoarseSecurity.firewall}

\* snapshots holding categories of the Performance and of the Security domain
MixedSnapshots ==
    {p @@ q : p \in PerformanceVariants \ {EmptyDict},
              q \in SecurityVariants \ {EmptyDict}}

\* the snapshot in which every category of the three domains drives its
\* evaluator to its worst status
SaturatedSnapshot ==
    [cpu         |-> [usage |-> 100, total |-> 1000],
     memory      |-> [usage |-> 100, total |-> 1000],
     disk        |-> [usage |-> 100, total |-> 1000],
     swap        |-> [usage |-> 100, total |-> 1000],
     network     |-> [bytes_sent |-> 7, packets_recv |-> 3],
     processes   |-> <<Hog(1), Hog(2), Hog(3), Hog(4), Hog(5), Hog(6)>>,
     file_system |-> [total_files |-> 2,
                      largest_files |-> <<[path |-> "/a", size |-> LargeFileLimit + 1]>>],
     ports       |-> <<[port |-> 22, state |-> "open"]>>,
     services    |-> <<[name |-> "Telnet", status |-> "running"]>>,
     updates     |-> [updates_available |-> 3],
     firewall    |-> EmptyDict,
     antivirus   |-> EmptyDict,
     ssl         |-> <<[expired |-> TRUE]>>]

\* the analyzers constructed from a configuration without overrides, and a
\* snapshot of one domain, of two or of all three
Init ==
    /\ Constructed(EmptyDict)
    /\ metrics \in DomainSnapshots \cup MixedSnapshots \cup {SaturatedSnapshot}
    /\ NoResults
    /\ MainIdle

Spec == Init /\ [][Next]_vars

\* what a category result of the given status holds when it reaches the
\* aggregator; "stale" is a Normal result that still carries an issue
CategoryKinds == {"normal", "stale", "warning", "critical"}

CategoryResultOf(category, kind) ==
    [status |-> IF kind = "stale" THEN "normal" ELSE kind,
     issues |-> IF kind = "normal" THEN <<>> ELSE <<[text |-> kind, category |-> category]>>]

\* the results mappings of one analyzer before aggregation: every combination
\* of category statuses
ResultsOver(categories) ==
    {[c \in Range(categories) |-> CategoryResultOf(c, kinds[c])] :
        kinds \in [Range(categories) -> CategoryKinds]}

\* one analyzer holds its category results and is about to aggregate them
InitAgg ==
    /\ Constructed(EmptyDict)
    /\ metrics = EmptyDict
    /\ MainIdle
    /\ \/ /\ performance_results \in ResultsOver(PerfCategories)
          /\ security_results = NoResult
          /\ resource_results = NoResult
       \/ /\ performance_results = NoResult
          /\ security_results \in ResultsOver(SecCategories)
          /\ resource_results = NoResult
       \/ /\ performance_results = NoResult
          /\ security_results = NoResult
          /\ resource_results \in ResultsOver(ResCategories)

SpecAgg == InitAgg /\ [][NextAgg]_vars

SpecEval == InitEval /\ [][Next]_vars

\* the categories a thresholds section may name: the ones either table knows
\* and one no table knows
ConfiguredCategories == UsageCategories \cup {"network"}

\* what Config.config_data may hold once Config(config_path) has returned: None
\* (a file without content), no analysis section, an analysis section without
\* thresholds, thresholds without content, and thresholds naming one or two
\* categories
LoadConfigs ==
    {None, EmptyDict, [api |-> [port |-> 8000]], [analysis |-> EmptyDict],
     [analysis |-> [performance |-> [enabled |-> TRUE],
                    resources   |-> [enabled |-> TRUE],
                    security    |-> [enabled |-> TRUE]]],
     [analysis |-> [performance |-> [thresholds |-> None],
                    resources   |-> [thresholds |-> None],
                    security    |-> [checks |-> None]]],
     [analysis |-> [performance |-> [thresholds |-> [cpu |-> None]],
                    resources   |-> [thresholds |-> [swap |-> None]],
                    security    |-> [checks |-> [open_ports |-> FALSE]]]]}
    \cup UNION {ThresholdConfigs(k) : k \in ConfiguredCategories}
    \cup {[analysis |-> [performance |-> [thresholds |-> (k :> ov) @@ [memory |-> ov]],
                         resources   |-> [thresholds |-> (k :> ov) @@ [memory |-> ov]]]] :
              k \in {"disk", "network"},
              ov \in {[warning |-> 90, critical |-> 70], [warning |-> 70]}}

\* no analyzer has been constructed yet
InitLoad ==
    /\ config_data \in LoadConfigs
    /\ performance_thresholds = NoResult
    /\ resource_thresholds = NoResult
    /\ security_checks = NoResult
    /\ metrics = EmptyDict
    /\ NoResults
    /\ MainIdle

SpecLoad == InitLoad /\ [][NextLoad]_vars

\* the readings collect_all may take: percentages below and above every
\* default threshold, up to MaxPartitions partitions, a quiet and a crowded
\* process list, no large file and one
MaxPartitions == 2

CollectedPercents == {0, 95}

CollectedSnapshots ==
    {Collect_all(c, m, w, q, ps, fs) :
        c \in CollectedPercents, m \in CollectedPercents, w \in CollectedPercents,
        q \in SeqsUpTo(CollectedPercents, MaxPartitions),
        ps \in {<<>>, <<Hog(1), Hog(2), Hog(3), Hog(4), Hog(5), Hog(6)>>},
        fs \in {<<>>, <<[path |-> "/a", size |-> LargeFileLimit + 1]>>}}

\* the analyzers constructed from a configuration without overrides, and a
\* snapshot as collect_all returns it
InitCollect ==
    /\ Constructed(EmptyDict)
    /\ metrics \in CollectedSnapshots
    /\ NoResults
    /\ MainIdle

SpecCollect == InitCollect /\ [][Next]_vars

-----------------------------------------------------------------------------
(* main: the statements of the try block and its handler *)

\* logging.info(text)
Info(text) == [level |-> "info", text |-> text]

\* logging.error(f"Error during system analysis: {str(e)}")
ErrorRecord(e) ==
    [level |-> "error", text |-> "Error during system analysis", exception |-> e.exception]

\* the statement of the try block that follows the one main is at
Following(stage) ==
    CASE stage = "init" -> "collect"
      [] stage = "collect" -> "performance"
      [] stage = "performance" -> "security"
      [] stage = "security" -> "resources"
      [] stage = "resources" -> "report"
      [] stage = "report" -> "done"

\* Fatal with a handler that logs the error and lets main go on with the next
\* statement (no sys.exit)
Fatal_logged_only(entries, e) ==
    /\ log' = log \o entries \o <<ErrorRecord(e)>>
    /\ pc' = Following(pc)
    /\ UNCHANGED exit_status

\* except Exception as e: logging.error(...); sys.exit(1) -- entries are the
\* records the statement logged before it raised e
Fatal(entries, e) ==
    /\ log' = log \o entries \o <<ErrorRecord(e)>>
    /\ pc' = "exited"
    /\ exit_status' = <<1>>

\* the statement returned: main goes on with the next one
Continue(entries) ==
    /\ log' = log \o entries
    /\ pc' = Following(pc)
    /\ UNCHANGED exit_status

\* metrics_collector = MetricsCollector(config), the three analyzers,
\* report_generator = ReportGenerator(config).  MetricsCollector.__init__
\* calls config.get, which is config_data.get: AttributeError on None;
\* ReportGenerator.__init__ creates the output directory, which may fail
MainInitialize ==
    /\ pc = "init"
    /\ \E made \in BOOLEAN :
           LET loadable == config_data # None
               pt == Perf_load_thresholds(config_data)
               sc == Sec_load_security_checks(config_data)
               rt == Res_load_thresholds(config_data)
               fault == IF ~loadable THEN Raise("AttributeError")
                        ELSE IF Raised(pt) THEN pt
                        ELSE IF Raised(sc) THEN sc
                        ELSE IF Raised(rt) THEN rt
                        ELSE IF ~made THEN Raise("OSError")
                        ELSE NoResult
           IN /\ performance_thresholds' =
                     IF loadable /\ ~Raised(pt) THEN pt ELSE performance_thresholds
              /\ security_checks' =
                     IF loadable /\ ~Raised(pt) /\ ~Raised(sc) THEN sc ELSE security_checks
              /\ resource_thresholds' =
                     IF loadable /\ ~Raised(pt) /\ ~Raised(sc) /\ ~Raised(rt)
                     THEN rt ELSE resource_thresholds
              /\ IF Raised(fault) THEN Fatal(<<>>, fault) ELSE Continue(<<>>)
    /\ UNCHANGED <<config_data, metrics, performance_results, security_results,
                   resource_results, report_path>>

\* the snapshots a collector may hand to main: the empty one, snapshots with
\* categories of two domains, and snapshots in which a category holds None
MainSnapshots ==
    {EmptyDict, [cpu |-> None], [firewall |-> None], [swap |-> None]} \cup MixedSnapshots

\* what the collector's collect() hands back: a snapshot, or an exception
CollectOutcomes == MainSnapshots \cup {Raise("AttributeError"), Raise("OSError")}

\* logging.info("Collecting system metrics..."); metrics = metrics_collector.collect()
MainCollect ==
    /\ pc = "collect"
    /\ \E outcome \in CollectOutcomes :
           LET entries == <<Info("Collecting system metrics...")>>
           IN IF Raised(outcome)
              THEN Fatal(entries, outcome) /\ UNCHANGED metrics
              ELSE Continue(entries) /\ metrics' = outcome
    /\ UNCHANGED <<config_data, performance_thresholds, resource_thresholds,
                   security_checks, performance_results, security_results,
                   resource_results, report_path>>

\* logging.info("Performing system analysis...");
\* performance_results = performance_analyzer.analyze(metrics)
MainPerformanceAnalyze ==
    /\ pc = "performance"
    /\ LET outcome == Perf_analyze(metrics, performance_thresholds)
           entries == <<Info("Performing system analysis...")>>
       IN IF Raised(outcome)
          THEN Fatal(entries, outcome) /\ UNCHANGED performance_results
          ELSE Continue(entries) /\ performance_results' = outcome
    /\ UNCHANGED <<config_data, performance_thresholds, resource_thresholds,
                   security_checks, metrics, security_results, resource_results,
                   report_path>>

\* security_results = security_analyzer.analyze(metrics)
MainSecurityAnalyze ==
    /\ pc = "security"
    /\ LET outcome == Sec_analyze(metrics)
       IN IF Raised(outcome)
          THEN Fatal(<<>>, outcome) /\ UNCHANGED security_results
          ELSE Continue(<<>>) /\ security_results' = outcome
    /\ UNCHANGED <<config_data, performance_thresholds, resource_thresholds,
                   security_checks, metrics, performance_results, resource_results,
                   report_path>>

\* resource_results = resource_analyzer.analyze(metrics)
MainResourceAnalyze ==
    /\ pc = "resources"
    /\ LET outcome == Res_analyze(metrics, resource_thresholds)
       IN IF Raised(outcome)
          THEN Fatal(<<>>, outcome) /\ UNCHANGED resource_results
          ELSE Continue(<<>>) /\ resource_results' = outcome
    /\ UNCHANGED <<config_data, performance_thresholds, resource_thresholds,
                   security_checks, metrics, performance_results, security_results,
                   report_path>>

\* logging.info("Generating analysis report..."); report_path =
\* report_generator.generate(...); logging.info("Analysis complete...");
\* main returns and the process ends with status 0
MainReport ==
    /\ pc = "report"
    /\ \E generated \in BOOLEAN :
           LET entries == <<Info("Generating analysis report...")>>
           IN IF ~generated
              THEN Fatal(entries, Raise("OSError")) /\ UNCHANGED report_path
              ELSE /\ log' = log \o entries \o <<Info("Analysis complete")>>
                   /\ pc' = "done"
                   /\ report_path' = <<"reports/report.html">>
                   /\ exit_status' = <<0>>
    /\ UNCHANGED <<config_data, performance_thresholds, resource_thresholds,
                   security_checks, metrics, performance_results, security_results,
                   resource_results>>

NextMain ==
    \/ MainInitialize
    \/ MainCollect
    \/ MainPerformanceAnalyze
    \/ MainSecurityAnalyze
    \/ MainResourceAnalyze
    \/ MainReport

\* what main may find in config_data: no content, an empty mapping, thresholds
\* for memory, a resources thresholds key without content, and security
\* checks set to false
MainConfigs ==
    {None, EmptyDict,
     [analysis |-> [performance |-> [thresholds |-> [memory |-> [warning |-> 70]]]]],
     [analysis |-> [resources |-> [thresholds |-> None]]],
     [analysis |-> [security |-> [checks |-> [open_ports |-> FALSE, firewall_status |-> FALSE,
                                              port_scan |-> FALSE]]]]}

\* main has loaded the configuration and enters the try block
InitMain ==
    /\ config_data \in MainConfigs
    /\ performance_thresholds = NoResult
    /\ resource_thresholds = NoResult
    /\ security_checks = NoResult
    /\ metrics = NoResult
    /\ NoResults
    /\ pc = "init"
    /\ log = <<>>
    /\ report_path = <<>>
    /\ exit_status = <<>>

SpecMain == InitMain /\ [][NextMain]_vars

-----------------------------------------------------------------------------
(* Properties of the category evaluators, under SpecEval *)

\* the usage the snapshot holds for category k, a missing category or field counting as 0
UsageOf(k) ==
    IF k \in DOMAIN metrics /\ "usage" \in DOMAIN metrics[k] THEN metrics[k].usage ELSE 0

Classified(result, u, t) ==
    /\ result.usage = u
    /\ result.status = "critical" <=> u >= t.critical
    /\ result.status = "warning" <=> (t.warning <= u /\ u < t.critical)
    /\ result.status = "normal" <=> u < t.warning

\* C1: every usage-percentage evaluator (CPU, Memory, Disk of the Performance
\* analyzer; Disk, Memory, Swap of the Resource analyzer), for every usage u (a
\* missing usage counting as 0) and every threshold pair with warning <=
\* critical, returns Critical iff u >= critical, Warning iff warning <= u <
\* critical and Normal iff u < warning.
C1_UsageClassification ==
    /\ performance_results # NoResult =>
           \A k \in {"cpu", "memory", "disk"} :
               performance_thresholds[k].warning <= performance_thresholds[k].critical
                   => Classified(performance_results[k], UsageOf(k), performance_thresholds[k])
    /\ resource_results # NoResult =>
           \A k \in {"disk", "memory", "swap"} :
               resource_thresholds[k].warning <= resource_thresholds[k].critical
                   => Classified(resource_results[k], UsageOf(k), resource_thresholds[k])

\* both analyzers have classified a memory usage lying exactly on a configured
\* critical threshold
C1_Witness ==
    /\ performance_results # NoResult
    /\ resource_results # NoResult
    /\ config_data # EmptyDict
    /\ "memory" \in DOMAIN metrics
    /\ "usage" \in DOMAIN metrics.memory
    /\ performance_thresholds.memory.warning < performance_thresholds.memory.critical
    /\ metrics.memory.usage = performance_thresholds.memory.critical
    /\ performance_results.memory.status = "critical"
    /\ resource_results.memory.status = "critical"

\* C8: the Firewall evaluator returns Critical for every firewall record with
\* enabled false and Normal for every one with enabled true, whatever its
\* other fields hold.
C8_FirewallByEnabled ==
    (/\ security_results # NoResult
     /\ "firewall" \in DOMAIN metrics
     /\ "enabled" \in DOMAIN metrics.firewall)
        => security_results.firewall.status =
               (IF metrics.firewall.enabled THEN "normal" ELSE "critical")

\* an enabled firewall without rules has been classified Normal
C8_Witness ==
    /\ security_results # NoResult
    /\ "firewall" \in DOMAIN metrics
    /\ "enabled" \in DOMAIN metrics.firewall
    /\ metrics.firewall.enabled
    /\ "rules" \in DOMAIN metrics.firewall
    /\ metrics.firewall.rules = <<>>
    /\ security_results.firewall.status = "normal"

CertHas(cert, fld) == fld \in DOMAIN cert /\ cert[fld]

\* C9: the SSL evaluator returns Critical whenever at least one certificate is
\* expired, whatever the others are and in whatever order; Warning iff none is
\* expired and at least one is expiring soon; otherwise Normal.
C9_SslPrecedence ==
    (security_results # NoResult /\ "ssl" \in DOMAIN metrics) =>
        LET certs == metrics.ssl
            anyExpired == \E i \in 1..Len(certs) : CertHas(certs[i], "expired")
            anySoon == \E i \in 1..Len(certs) : CertHas(certs[i], "expiring_soon")
        IN security_results.ssl.status =
               (IF anyExpired THEN "critical"
                ELSE IF anySoon THEN "warning" ELSE "normal")

\* a certificate expiring soon followed by an expired one has been classified Critical
C9_Witness ==
    /\ security_results # NoResult
    /\ "ssl" \in DOMAIN metrics
    /\ Len(metrics.ssl) = 2
    /\ CertHas(metrics.ssl[1], "expiring_soon") /\ ~CertHas(metrics.ssl[1], "expired")
    /\ CertHas(metrics.ssl[2], "expired")
    /\ security_results.ssl.status = "critical"

\* the port numbers of the records that are open and in the vulnerable set, in order
RECURSIVE OpenVulnerableNumbers(_)
OpenVulnerableNumbers(ports) ==
    IF ports = <<>> THEN <<>>
    ELSE LET port == Head(ports)
             rest == OpenVulnerableNumbers(Tail(ports))
         IN IF /\ "port" \in DOMAIN port
               /\ port.port \in {21, 22, 23, 25, 3389}
               /\ "state" \in DOMAIN port
               /\ port.state = "open"
            THEN <<port.port>> \o rest
            ELSE rest

\* C10: the Ports evaluator flags exactly the port records that are open and
\* whose number is in {21, 22, 23, 25, 3389}; the status is Warning iff at
\* least one port is flagged and Normal otherwise.
C10_PortsFlagOpenVulnerable ==
    (security_results # NoResult /\ "ports" \in DOMAIN metrics) =>
        LET expected == OpenVulnerableNumbers(metrics.ports)
            flagged == security_results.ports.open
        IN /\ Len(flagged) = Len(expected)
           /\ \A i \in 1..Len(flagged) : flagged[i].port = expected[i]
           /\ security_results.ports.status =
                  (IF expected # <<>> THEN "warning" ELSE "normal")

\* the positions of the processes whose field is present and above limit
Above(processes, fld, limit) ==
    {i \in 1..Len(processes) : fld \in DOMAIN processes[i] /\ processes[i][fld] > limit}

Zombies(processes) ==
    {i \in 1..Len(processes) :
        "status" \in DOMAIN processes[i] /\ processes[i].status = "zombie"}

\* listed holds one entry per position of chosen, in the order of the process
\* list, each with the value the process has for fld
ListsExactly(listed, processes, chosen, fld) ==
    /\ Len(listed) = Cardinality(chosen)
    /\ \A n \in 1..Len(listed) :
           \E i \in chosen :
               /\ Cardinality({j \in chosen : j <= i}) = n
               /\ listed[n][fld] = processes[i][fld]

\* C18: the Process evaluator puts a process in high_cpu iff its cpu_percent
\* > 50 and in high_memory iff its memory_percent > 5 (both strict, fixed
\* constants); its status is Warning iff high_cpu has more than 5 entries, or
\* high_memory has more than 5 entries, or (Resource analyzer only) at least
\* one process has status "zombie"; exactly 5 entries do not escalate; the
\* status is never Critical; in the Performance analyzer zombies have no effect.
C18_ProcessEvaluator ==
    "processes" \in DOMAIN metrics =>
        LET processes == metrics.processes
            cpu == Above(processes, "cpu_percent", 50)
            memory == Above(processes, "memory_percent", 5)
            crowded == Cardinality(cpu) > 5 \/ Cardinality(memory) > 5
        IN /\ performance_results # NoResult =>
                  /\ ListsExactly(performance_results.processes.high_cpu,
                                  processes, cpu, "cpu_percent")
                  /\ ListsExactly(performance_results.processes.high_memory,
                                  processes, memory, "memory_percent")
                  /\ performance_results.processes.status
                         = (IF crowded THEN "warning" ELSE "normal")
           /\ resource_results # NoResult =>
                  /\ ListsExactly(resource_results.processes.high_cpu,
                                  processes, cpu, "cpu_percent")
                  /\ ListsExactly(resource_results.processes.high_memory,
                                  processes, memory, "memory_percent")
                  /\ Len(resource_results.processes.zombie) = Cardinality(Zombies(processes))
                  /\ resource_results.processes.status
                         = (IF crowded \/ Zombies(processes) # {} THEN "warning" ELSE "normal")

\* exactly five CPU-intensive processes and one zombie: Normal for the
\* Performance analyzer, Warning (for the zombie alone) for the Resource analyzer
C18_Witness ==
    /\ "processes" \in DOMAIN metrics
    /\ performance_results # NoResult
    /\ resource_results # NoResult
    /\ Cardinality(Above(metrics.processes, "cpu_percent", 50)) = 5
    /\ Cardinality(Above(metrics.processes, "memory_percent", 5)) = 0
    /\ Cardinality(Zombies(metrics.processes)) = 1
    /\ Len(performance_results.processes.high_cpu) = 5
    /\ performance_results.processes.status = "normal"
    /\ resource_results.processes.status = "warning"
    /\ Len(resource_results.processes.issues) = 1

\* the positions of the services that are running and whose name, in any
\* letter case the model uses, is one of telnet, ftp, rsh, rlogin, rexec
RunningVulnerable(services) ==
    {i \in 1..Len(services) :
        /\ "name" \in DOMAIN services[i]
        /\ services[i].name \in {"telnet", "Telnet", "ftp", "FTP", "rsh", "rlogin", "rexec"}
        /\ "status" \in DOMAIN services[i]
        /\ services[i].status = "running"}

\* C19: the Services evaluator flags exactly the services that are running
\* and whose lowercased name is in {telnet, ftp, rsh, rlogin, rexec} ("FTP" and
\* "ftp" are both flagged, a name outside the set never is); the status is
\* Warning iff at least one service is flagged and Normal otherwise.  Stated
\* for the services that report a status.
C19_ServicesFlagRunningVulnerable ==
    (/\ security_results # NoResult
     /\ "services" \in DOMAIN metrics
     /\ \A i \in 1..Len(metrics.services) : "status" \in DOMAIN metrics.services[i]) =>
        LET expected == RunningVulnerable(metrics.services)
        IN /\ Len(security_results.services.vulnerable) = Cardinality(expected)
           /\ security_results.services.status =
                  (IF expected # {} THEN "warning" ELSE "normal")

\* the largest_files list of the snapshot, empty when file_system has none
LargestFiles ==
    IF "largest_files" \in DOMAIN metrics.file_system
    THEN metrics.file_system.largest_files ELSE <<>>

\* the positions of the entries that have a size strictly above 2^30 bytes
OverOneGiB(files) ==
    {i \in 1..Len(files) : "size" \in DOMAIN files[i] /\ files[i].size > 2^30}

\* C20: the Filesystem evaluator returns Warning iff at least one entry of
\* largest_files has size strictly greater than 2^30 bytes, and Normal
\* otherwise; an entry of exactly 2^30 bytes, an entry without a size, and an
\* empty or missing list give Normal; the issue reports the count of entries
\* over the limit.
C20_FilesystemEvaluator ==
    (resource_results # NoResult /\ "file_system" \in DOMAIN metrics) =>
        LET over == OverOneGiB(LargestFiles)
            result == resource_results.file_system
        IN /\ result.status = (IF over # {} THEN "warning" ELSE "normal")
           /\ result.issues =
                  (IF over # {}
                   THEN <<[text |-> "files larger than 1GB", value |-> Cardinality(over)]>>
                   ELSE <<>>)

\* a file of exactly 2^30 bytes next to one of 2^30 + 1 bytes: Warning,
\* reporting one file
C20_Witness ==
    /\ resource_results # NoResult
    /\ "file_system" \in DOMAIN metrics
    /\ Len(LargestFiles) = 2
    /\ "size" \in DOMAIN LargestFiles[1] /\ LargestFiles[1].size = 2^30
    /\ "size" \in DOMAIN LargestFiles[2] /\ LargestFiles[2].size = 2^30 + 1
    /\ resource_results.file_system.status = "warning"
    /\ resource_results.file_system.issues[1].value = 1

-----------------------------------------------------------------------------
(* Properties of the health aggregation, under SpecAgg *)

\* the results mapping holds its aggregate under key own
Aggregated(results, own) == results # NoResult /\ own \in DOMAIN results

\* the categories of a results mapping: every key but the aggregate's
CategoriesOf(results, own) == DOMAIN results \ {own}

CountStatus(results, own, status) ==
    Cardinality({c \in CategoriesOf(results, own) : results[c].status = status})

ExpectedScore(results, own) ==
    100 - 25 * CountStatus(results, own, "critical")
        - 10 * CountStatus(results, own, "warning")

\* C2: for each analyzer and every combination of category statuses, the
\* aggregated score is 100 - 25 * (number of Critical categories) - 10 *
\* (number of Warning categories); the aggregate already stored in the results
\* is never counted as a category.
C2_ScoreFormula ==
    /\ Aggregated(performance_results, "health") =>
           performance_results.health.score = ExpectedScore(performance_results, "health")
    /\ Aggregated(security_results, "security_score") =>
           security_results.security_score.score
               = ExpectedScore(security_results, "security_score")
    /\ Aggregated(resource_results, "health") =>
           resource_results.health.score = ExpectedScore(resource_results, "health")

\* an aggregate that is itself Critical sits in the results (so a second
\* aggregation meets it) and the score counts the categories only
C2_Witness ==
    /\ Aggregated(performance_results, "health")
    /\ performance_results.health.status = "critical"
    /\ CountStatus(performance_results, "health", "critical") = 2
    /\ CountStatus(performance_results, "health", "warning") = 1
    /\ performance_results.health.score = 40

\* the status an aggregate must have for its score, top being the label of the best class
StatusForScore(health, top) ==
    /\ health.status = "critical" <=> health.score <= 50
    /\ health.status = "warning" <=> (50 < health.score /\ health.score <= 75)
    /\ health.status = top <=> health.score > 75

\* one Critical category, the rest Normal: 75 and Warning; two Critical, the
\* rest Normal: 50 and Critical
BoundaryCases(results, own) ==
    LET crit == CountStatus(results, own, "critical")
        warn == CountStatus(results, own, "warning")
    IN /\ (crit = 1 /\ warn = 0) =>
              (results[own].score = 75 /\ results[own].status = "warning")
       /\ (crit = 2 /\ warn = 0) =>
              (results[own].score = 50 /\ results[own].status = "critical")

AllNormal(results, own) ==
    \A c \in CategoriesOf(results, own) : results[c].status = "normal"

CategoryRank(status) ==
    CASE status = "normal" -> 0 [] status = "warning" -> 1 [] status = "critical" -> 2

OverallRank(status) ==
    CASE status \in {"healthy", "secure"} -> 0
      [] status = "warning" -> 1
      [] status = "critical" -> 2

\* the category results that are worse than result
Worse(category, result) ==
    {CategoryResultOf(category, kind) :
        kind \in {k \in {"warning", "critical"} : CategoryRank(k) > CategoryRank(result.status)}}

\* aggregate b is no better than aggregate a
NoBetter(a, b) ==
    b.score <= a.score /\ OverallRank(b.status) >= OverallRank(a.status)

\* C7: for a fixed set of categories the aggregated score is non-increasing
\* in the category statuses: making any one category worse (Normal to Warning
\* or Critical, Warning to Critical) with the others unchanged never raises
\* the score and never improves the aggregated status.
C7_Monotone ==
    /\ Aggregated(performance_results, "health") =>
           \A c \in CategoriesOf(performance_results, "health") :
               \A w \in Worse(c, performance_results[c]) :
                   NoBetter(performance_results.health,
                            Perf_calculate_health([performance_results EXCEPT ![c] = w]))
    /\ Aggregated(security_results, "security_score") =>
           \A c \in CategoriesOf(security_results, "security_score") :
               \A w \in Worse(c, security_results[c]) :
                   NoBetter(security_results.security_score,
                            Sec_calculate_security_score([security_results EXCEPT ![c] = w]))
    /\ Aggregated(resource_results, "health") =>
           \A c \in CategoriesOf(resource_results, "health") :
               \A w \in Worse(c, resource_results[c]) :
                   NoBetter(resource_results.health,
                            Res_calculate_health([resource_results EXCEPT ![c] = w]))

\* an aggregate of 65 (Critical disk, Warning memory) whose memory turning
\* Critical gives 50
C7_Witness ==
    /\ Aggregated(resource_results, "health")
    /\ resource_results.disk.status = "critical"
    /\ resource_results.memory.status = "warning"
    /\ resource_results.health.score = 65
    /\ Res_calculate_health(
           [resource_results EXCEPT !.memory = CategoryResultOf("memory", "critical")]).score = 50

-----------------------------------------------------------------------------
(* Properties of analyze, under Spec *)

HealthFields == {"score", "status", "issues"}

\* C5: every AnalysisResult returned by analyze, for each of the three
\* domains, contains a health key holding that domain's HealthResult {score,
\* status, issues}, next to one CategoryResult per category of the domain.
C5_HealthKeyEverywhere ==
    /\ performance_results # NoResult =>
           /\ DOMAIN performance_results = Range(PerfCategories) \cup {"health"}
           /\ DOMAIN performance_results.health = HealthFields
    /\ security_results # NoResult =>
           /\ DOMAIN security_results = Range(SecCategories) \cup {"health"}
           /\ DOMAIN security_results.health = HealthFields
    /\ resource_results # NoResult =>
           /\ DOMAIN resource_results = Range(ResCategories) \cup {"health"}
           /\ DOMAIN resource_results.health = HealthFields

\* what each evaluator returns for a category that is missing or empty
UsageOnEmpty == [usage |-> 0, status |-> "normal", issues |-> <<>>]

PerformanceOnEmpty ==
    [cpu       |-> UsageOnEmpty,
     memory    |-> [available |-> 0, total |-> 0] @@ UsageOnEmpty,
     disk      |-> [free |-> 0, total |-> 0] @@ UsageOnEmpty,
     network   |-> [bytes_sent |-> 0, bytes_recv |-> 0, packets_sent |-> 0,
                    packets_recv |-> 0, status |-> "normal", issues |-> <<>>],
     processes |-> [total |-> 0, high_cpu |-> <<>>, high_memory |-> <<>>,
                    status |-> "normal", issues |-> <<>>]]

ResourcesOnEmpty ==
    [disk        |-> [free |-> 0, total |-> 0] @@ UsageOnEmpty,
     memory      |-> [available |-> 0, total |-> 0] @@ UsageOnEmpty,
     swap        |-> [free |-> 0, total |-> 0] @@ UsageOnEmpty,
     file_system |-> [total_files |-> 0, total_dirs |-> 0, largest_files |-> <<>>,
                      status |-> "normal", issues |-> <<>>],
     processes   |-> [total |-> 0, high_cpu |-> <<>>, high_memory |-> <<>>,
                      zombie |-> <<>>, status |-> "normal", issues |-> <<>>]]

SecurityOnEmpty ==
    [ports     |-> [total |-> 0, open |-> <<>>, status |-> "normal", issues |-> <<>>],
     services  |-> [total |-> 0, vulnerable |-> <<>>, status |-> "normal", issues |-> <<>>],
     updates   |-> [last_update |-> "unknown", updates_available |-> 0,
                    status |-> "normal", issues |-> <<>>],
     firewall  |-> [enabled |-> FALSE, rules |-> <<>>, status |-> "critical",
                    issues |-> <<[text |-> "Firewall is not enabled"]>>],
     antivirus |-> [enabled |-> FALSE, last_scan |-> "unknown", status |-> "critical",
                    issues |-> <<[text |-> "Antivirus is not enabled"]>>],
     ssl       |-> [total |-> 0, expired |-> <<>>, expiring_soon |-> <<>>,
                    status |-> "normal", issues |-> <<>>]]

\* analyze returned (raised nothing), with an entry for every category and an
\* aggregate under own; the entry of a category missing from the snapshot is
\* what its evaluator returns for the empty record or list
ReturnedComplete(results, categories, own, onEmpty) ==
    /\ ~Raised(results)
    /\ DOMAIN results = Range(categories) \cup {own}
    /\ DOMAIN results[own] = HealthFields
    /\ \A c \in Range(categories) :
           /\ results[c].status \in {"normal", "warning", "critical"}
           /\ (c \notin DOMAIN metrics \/ metrics[c] = EmptyDict) => results[c] = onEmpty[c]

\* the fields an evaluator decides on, read as zero/false when the record lacks them
MissingFieldsReadZero ==
    /\ performance_results # NoResult =>
           \A c \in {"cpu", "memory", "disk"} :
               (c \in DOMAIN metrics /\ "usage" \notin DOMAIN metrics[c]) =>
                   (performance_results[c].usage = 0 /\ performance_results[c].status = "normal")
    /\ resource_results # NoResult =>
           /\ \A c \in {"disk", "memory", "swap"} :
                  (c \in DOMAIN metrics /\ "usage" \notin DOMAIN metrics[c]) =>
                      (resource_results[c].usage = 0 /\ resource_results[c].status = "normal")
           /\ ("file_system" \in DOMAIN metrics
                   /\ "largest_files" \in DOMAIN metrics.file_system
                   /\ \A i \in 1..Len(metrics.file_system.largest_files) :
                          "size" \notin DOMAIN metrics.file_system.largest_files[i]) =>
                  resource_results.file_system.status = "normal"
           /\ ("processes" \in DOMAIN metrics
                   /\ \A i \in 1..Len(metrics.processes) : metrics.processes[i] = EmptyDict) =>
                  resource_results.processes.status = "normal"
    /\ security_results # NoResult =>
           /\ ("firewall" \in DOMAIN metrics /\ "enabled" \notin DOMAIN metrics.firewall) =>
                  (~security_results.firewall.enabled
                       /\ security_results.firewall.status = "critical")
           /\ ("updates" \in DOMAIN metrics
                   /\ "updates_available" \notin DOMAIN metrics.updates) =>
                  (security_results.updates.updates_available = 0
                       /\ security_results.updates.status = "normal")
           /\ ("ports" \in DOMAIN metrics
                   /\ \A i \in 1..Len(metrics.ports) : metrics.ports[i] = EmptyDict) =>
                  security_results.ports.status = "normal"
           /\ ("services" \in DOMAIN metrics
                   /\ \A i \in 1..Len(metrics.services) : metrics.services[i] = EmptyDict) =>
                  security_results.services.status = "normal"
           /\ ("ssl" \in DOMAIN metrics
                   /\ \A i \in 1..Len(metrics.ssl) : metrics.ssl[i] = EmptyDict) =>
                  security_results.ssl.status = "normal"

\* C6: analyze of each of the three analyzers never raises on a snapshot from
\* which any subset of category keys is missing (the empty snapshot included)
\* or in which fields of a category record are missing: the evaluator of a
\* missing category runs against an empty record or list, missing fields read
\* as zero/empty, and a complete result is returned.
C6_NeverRaisesOnMissing ==
    /\ performance_results # NoResult =>
           ReturnedComplete(performance_results, PerfCategories, "health", PerformanceOnEmpty)
    /\ security_results # NoResult =>
           ReturnedComplete(security_results, SecCategories, "security_score", SecurityOnEmpty)
    /\ resource_results # NoResult =>
           ReturnedComplete(resource_results, ResCategories, "health", ResourcesOnEmpty)
    /\ MissingFieldsReadZero

\* the three analyzers have returned on the empty snapshot
C6_Witness ==
    /\ metrics = EmptyDict
    /\ performance_results # NoResult /\ ~Raised(performance_results)
    /\ security_results # NoResult /\ ~Raised(security_results)
    /\ resource_results # NoResult /\ ~Raised(resource_results)
    /\ performance_results.cpu.usage = 0
    /\ resource_results.swap.status = "normal"
    /\ security_results.firewall.status = "critical"

\* C11: analyze of each domain analyzer is free of side effects: a call leaves
\* the metrics snapshot, both threshold tables and the security checks as they
\* were, and a call made when the analyzer has already returned on the same
\* snapshot, after any calls of the three analyzers in any order, returns a
\* result equal to the earlier one.
C11_AnalyzeSideEffectFree ==
    [][/\ metrics' = metrics
       /\ performance_thresholds' = performance_thresholds
       /\ resource_thresholds' = resource_thresholds
       /\ security_checks' = security_checks
       /\ performance_results # NoResult => performance_results' = performance_results
       /\ security_results # NoResult => security_results' = security_results
       /\ resource_results # NoResult => resource_results' = resource_results]_vars

\* the three analyzers have returned on a snapshot whose file_system and
\* processes records hold entries, which the Resource result carries
C11_Witness ==
    /\ performance_results # NoResult
    /\ security_results # NoResult
    /\ resource_results # NoResult
    /\ "file_system" \in DOMAIN metrics
    /\ "largest_files" \in DOMAIN metrics.file_system
    /\ metrics.file_system.largest_files # <<>>
    /\ resource_results.file_system.largest_files = metrics.file_system.largest_files
    /\ "processes" \in DOMAIN metrics
    /\ Len(metrics.processes) > ProcessCountLimit
    /\ resource_results.processes.status = "warning"
    /\ performance_results.processes.status = "warning"

\* the part of a snapshot under the given category keys
Restrict(m, keys) == [k \in DOMAIN m \cap keys |-> m[k]]

\* C12: domain results are independent of the other domains' inputs: every
\* snapshot that agrees with the analyzed one on ports, services, updates,
\* firewall, antivirus and ssl has the same Security result, whatever it holds
\* for cpu, memory, disk, network and processes; every snapshot that agrees
\* with the analyzed one on cpu, memory, disk, network and processes has the
\* same Performance result, whatever it holds for the Security categories.
C12_DomainsIndependent ==
    /\ security_results # NoResult =>
           \A other \in PerformanceVariants :
               Sec_analyze(other @@ Restrict(metrics, Range(SecCategories)))
                   = security_results
    /\ performance_results # NoResult =>
           \A other \in SecurityVariants :
               Perf_analyze(other @@ Restrict(metrics, Range(PerfCategories)),
                            performance_thresholds)
                   = performance_results

\* both analyzers have returned on a snapshot holding a saturated CPU, a
\* crowded process list and an enabled firewall
C12_Witness ==
    /\ security_results # NoResult
    /\ performance_results # NoResult
    /\ {"cpu", "processes", "firewall", "ports"} \subseteq DOMAIN metrics
    /\ performance_results.cpu.status = "critical"
    /\ performance_results.processes.status = "warning"
    /\ security_results.firewall.status = "normal"
    /\ security_results.ports.status = "warning"

\* the score of the aggregate is 100 less the penalties of the categories,
\* below 0 when they exceed 100
Unclamped(results, own) ==
    LET penalties == 25 * CountStatus(results, own, "critical")
                         + 10 * CountStatus(results, own, "warning")
    IN /\ results[own].score = 100 - penalties
       /\ penalties > 100 => (results[own].score < 0 /\ results[own].status = "critical")

\* C15: the health score is not floored at 0: analyze returns the score 100
\* less the penalties whatever its sign, and on a snapshot with enough
\* categories Critical at once the returned score is negative.
C15_ScoreNotFloored ==
    /\ performance_results # NoResult => Unclamped(performance_results, "health")
    /\ security_results # NoResult => Unclamped(security_results, "security_score")
    /\ resource_results # NoResult => Unclamped(resource_results, "health")

\* the Security analyzer has returned on a snapshot with a vulnerable port, a
\* vulnerable service, pending updates, firewall and antivirus disabled and
\* an expired certificate: three Warning and three Critical categories, score -5
C15_Witness ==
    /\ security_results # NoResult
    /\ CountStatus(security_results, "security_score", "critical") = 3
    /\ CountStatus(security_results, "security_score", "warning") = 3
    /\ security_results.security_score.score = -5
    /\ security_results.security_score.status = "critical"

\* the issues of the Warning and Critical categories, in the order of categories
RECURSIVE ContributedIssues(_, _)
ContributedIssues(results, categories) ==
    IF categories = <<>> THEN <<>>
    ELSE LET result == results[Head(categories)]
         IN (IF result.status \in {"warning", "critical"} THEN result.issues ELSE <<>>)
                \o ContributedIssues(results, Tail(categories))

\* results with the status of one category set to Normal, its issues kept
Quieted(results, categories) ==
    {results} \cup {[results EXCEPT ![c].status = "normal"] : c \in Range(categories)}

\* C17: the issues of a HealthResult are exactly the concatenation of the
\* issues of the Warning and Critical categories, taken in the fixed insertion
\* order of the domain's category set (Performance: cpu, memory, disk, network,
\* processes; Resources: disk, memory, swap, file_system, processes; Security:
\* ports, services, updates, firewall, antivirus, ssl), each category's issues
\* in the order its checks ran; a Normal category contributes nothing, also
\* when it carries issues.
C17_IssuesInCategoryOrder ==
    /\ performance_results # NoResult =>
           LET order == <<"cpu", "memory", "disk", "network", "processes">>
           IN /\ performance_results.health.issues
                     = ContributedIssues(performance_results, order)
              /\ \A quieted \in Quieted(performance_results, order) :
                     Perf_calculate_health(quieted).issues = ContributedIssues(quieted, order)
    /\ resource_results # NoResult =>
           LET order == <<"disk", "memory", "swap", "file_system", "processes">>
           IN /\ resource_results.health.issues
                     = ContributedIssues(resource_results, order)
              /\ \A quieted \in Quieted(resource_results, order) :
                     Res_calculate_health(quieted).issues = ContributedIssues(quieted, order)
              /\ resource_results.processes.status = "warning" =>
                     \A i \in 1..Len(resource_results.processes.issues) :
                         \A j \in 1..Len(resource_results.processes.issues) :
                             (/\ resource_results.processes.issues[i].text = "zombie processes"
                              /\ resource_results.processes.issues[j].text # "zombie processes")
                                 => i < j
    /\ security_results # NoResult =>
           LET order == <<"ports", "services", "updates", "firewall", "antivirus", "ssl">>
           IN /\ security_results.security_score.issues
                     = ContributedIssues(security_results, order)
              /\ \A quieted \in Quieted(security_results, order) :
                     Sec_calculate_security_score(quieted).issues
                         = ContributedIssues(quieted, order)

\* the Resource analyzer has returned seven issues: the three Critical usage
\* categories, the large files, then the three issues of the process evaluator
C17_Witness ==
    /\ resource_results # NoResult
    /\ Len(resource_results.processes.issues) = 3
    /\ Len(resource_results.health.issues) = 7
    /\ resource_results.health.issues[1].text = "Disk usage is critically high"
    /\ resource_results.health.issues[3].text = "Swap usage is critically high"
    /\ resource_results.health.issues[4].text = "files larger than 1GB"
    /\ resource_results.health.issues[5].text = "zombie processes"
    /\ resource_results.health.issues[7].text = "High number of memory-intensive processes"

-----------------------------------------------------------------------------
(* Properties of the Threshold Table, under SpecLoad *)

\* the thresholds section config_data holds for a domain, the empty mapping
\* when there is none
OverridesOf(domain) ==
    IF config_data # None
       /\ "analysis" \in DOMAIN config_data
       /\ domain \in DOMAIN config_data.analysis
       /\ "thresholds" \in DOMAIN config_data.analysis[domain]
       /\ config_data.analysis[domain].thresholds # None
    THEN config_data.analysis[domain].thresholds
    ELSE EmptyDict

Overridden(overrides, category, fld) ==
    /\ category \in DOMAIN overrides
    /\ overrides[category] # None
    /\ fld \in DOMAIN overrides[category]

\* table is defaults with each configured warning / critical of a known
\* category in place of the default
MergedFieldByField(table, defaults, overrides) ==
    /\ ~Raised(table)
    /\ DOMAIN table = DOMAIN defaults
    /\ \A category \in DOMAIN defaults : \A fld \in {"warning", "critical"} :
           table[category][fld] =
               (IF Overridden(overrides, category, fld)
                THEN overrides[category][fld]
                ELSE defaults[category][fld])

\* C13: Threshold Table loading raises no error and merges field by field:
\* an overridden warning or critical of a category the defaults know replaces
\* that field alone, categories without an override keep both defaults,
\* override categories the defaults do not know are dropped, so the table's
\* category set equals the default category set; for every configuration,
\* including one with no analysis section or no content.
C13_LoadMergesWithoutError ==
    /\ performance_thresholds # NoResult =>
           MergedFieldByField(performance_thresholds, PerformanceDefaults,
                              OverridesOf("performance"))
    /\ resource_thresholds # NoResult =>
           MergedFieldByField(resource_thresholds, ResourceDefaults,
                              OverridesOf("resources"))

\* both warning and critical of the category are configured, warning above critical
Disordered(overrides, category) ==
    /\ Overridden(overrides, category, "warning")
    /\ Overridden(overrides, category, "critical")
    /\ overrides[category].warning > overrides[category].critical

Ordered(table) ==
    \A category \in DOMAIN table : table[category].warning <= table[category].critical

\* loading accepted every configured pair with warning > critical as it is,
\* and without overrides produced the defaults
AcceptedAsConfigured(table, defaults, overrides) ==
    /\ \A category \in DOMAIN defaults :
           Disordered(overrides, category) =>
               /\ ~Raised(table)
               /\ table[category].warning = overrides[category].warning
               /\ table[category].critical = overrides[category].critical
               /\ ~Ordered(table)
    /\ (overrides = EmptyDict /\ ~Raised(table)) => (table = defaults /\ Ordered(table))

\* C14: the ordering warning <= critical is not enforced when overrides are
\* applied: overrides with warning > critical for a category the table knows
\* are accepted without error and the table then holds exactly the
\* overridden values; with no overrides, every category of both default
\* tables satisfies warning <= critical.
C14_OrderingNotEnforced ==
    /\ Ordered(PerformanceDefaults)
    /\ Ordered(ResourceDefaults)
    /\ performance_thresholds # NoResult =>
           AcceptedAsConfigured(performance_thresholds, PerformanceDefaults,
                                OverridesOf("performance"))
    /\ resource_thresholds # NoResult =>
           AcceptedAsConfigured(resource_thresholds, ResourceDefaults,
                                OverridesOf("resources"))

\* both tables were loaded from a configuration that sets the memory warning
\* threshold to 90 and the critical one to 70
C14_Witness ==
    /\ performance_thresholds # NoResult
    /\ resource_thresholds # NoResult
    /\ Disordered(OverridesOf("performance"), "memory")
    /\ Disordered(OverridesOf("resources"), "memory")
    /\ performance_thresholds.memory = [warning |-> 90, critical |-> 70]
    /\ resource_thresholds.memory = [warning |-> 90, critical |-> 70]

-----------------------------------------------------------------------------
(* Properties of main, under SpecMain *)

\* an error has been logged
Faulted == \E i \in 1..Len(log) : log[i].level = "error"

\* the stages that have completed form a prefix of collection, Performance,
\* Security, Resources, report
StagesInOrder ==
    /\ performance_results # NoResult => metrics # NoResult
    /\ security_results # NoResult => performance_results # NoResult
    /\ resource_results # NoResult => security_results # NoResult
    /\ report_path # <<>> => resource_results # NoResult

\* a fault is logged exactly when the process has exited with status 1, and
\* status 0 goes with a report and no error
FaultExits ==
    /\ Faulted <=> exit_status = <<1>>
    /\ Faulted <=> pc = "exited"
    /\ Faulted => report_path = <<>>
    /\ exit_status = <<0>> <=> report_path # <<>>

\* C16: in main, a fault raised by metrics collection, by any of the three
\* analyses or by report generation is fatal: it is logged, the process
\* exits with nonzero status, and no later stage runs (no analysis after a
\* failed collection, no report after a failed analysis): the stages run in
\* order, and once an error is logged nothing changes any more.
C16_FaultIsFatal ==
    /\ [](StagesInOrder /\ FaultExits)
    /\ [][~Faulted /\ (Faulted' => (vars' # vars /\ exit_status' = <<1>>))]_vars

\* the Security analysis raised on a snapshot whose firewall is None, after
\* collection and the Performance analysis had completed: the error is
\* logged, the exit status is 1, and there is no Resource result or report
C16_Witness ==
    /\ Faulted
    /\ exit_status = <<1>>
    /\ metrics = [firewall |-> None]
    /\ performance_results # NoResult
    /\ security_results = NoResult
    /\ resource_results = NoResult
    /\ report_path = <<>>
    /\ log[Len(log)].exception = "AttributeError"

-----------------------------------------------------------------------------
(* Properties relating status, issues and score, under SpecEval and Spec *)

\* every category entry is Normal exactly when it holds no issue
StatusMatchesIssues(results, categories) ==
    \A c \in Range(categories) :
        /\ results[c].status \in {"normal", "warning", "critical"}
        /\ results[c].status = "normal" <=> results[c].issues = <<>>

\* the aggregate holds no issue exactly when its score is 100
CleanIffFullScore(health) == health.issues = <<>> <=> health.score = FullScore

\* C21: in every CategoryResult produced by any evaluator of the three
\* analyzers the status is Normal iff the issues sequence is empty, and in
\* every HealthResult the issues sequence is empty iff the score is 100.
C21_NormalIffNoIssues ==
    /\ performance_results # NoResult =>
           /\ StatusMatchesIssues(performance_results, PerfCategories)
           /\ CleanIffFullScore(performance_results.health)
    /\ security_results # NoResult =>
           /\ StatusMatchesIssues(security_results, SecCategories)
           /\ CleanIffFullScore(security_results.security_score)
    /\ resource_results # NoResult =>
           /\ StatusMatchesIssues(resource_results, ResCategories)
           /\ CleanIffFullScore(resource_results.health)

\* on one snapshot the Performance analyzer returned a Warning memory entry
\* with its issue and a score below 100, and the Security analyzer returned
\* Normal entries without issues next to its two Critical ones
C21_Witness ==
    /\ performance_results # NoResult
    /\ security_results # NoResult
    /\ performance_results.memory.status = "warning"
    /\ Len(performance_results.memory.issues) = 1
    /\ performance_results.cpu.status = "normal"
    /\ performance_results.cpu.issues = <<>>
    /\ performance_results.health.score = FullScore - WarningPenalty
    /\ Len(performance_results.health.issues) = 1
    /\ security_results.ports.issues = <<>>
    /\ Len(security_results.security_score.issues) = 2

\* the statuses the entries of the given categories may hold at worst
AtWorstWarning(results, categories) ==
    \A c \in categories : results[c].status \in {"normal", "warning"}

\* C22: over all snapshots the score each analyzer returns is bounded by the
\* statuses its evaluators can reach: the Performance score lies in [15, 100]
\* (network always Normal, processes at worst Warning), the Resources score
\* in [5, 100] (file_system and processes at worst Warning) and the Security
\* score in [-5, 100] (ports, services, updates at worst Warning); only the
\* Security score can be negative.
C22_ScoreRanges ==
    /\ performance_results # NoResult =>
           /\ performance_results.network.status = "normal"
           /\ AtWorstWarning(performance_results, {"processes"})
           /\ performance_results.health.score \in 15..FullScore
    /\ resource_results # NoResult =>
           /\ AtWorstWarning(resource_results, {"file_system", "processes"})
           /\ resource_results.health.score \in 5..FullScore
    /\ security_results # NoResult =>
           /\ AtWorstWarning(security_results, {"ports", "services", "updates"})
           /\ security_results.security_score.score \in (-5)..FullScore

\* on the snapshot with every category at its worst the three analyzers
\* returned the lowest score of their range: 15, 5 and -5
C22_Witness ==
    /\ metrics = SaturatedSnapshot
    /\ performance_results # NoResult
    /\ resource_results # NoResult
    /\ security_results # NoResult
    /\ performance_results.health.score = 15
    /\ resource_results.health.score = 5
    /\ security_results.security_score.score = -5

\* every category entry is Normal and the aggregate is the full score
AllNormalFullScore(results, categories) ==
    /\ \A c \in Range(categories) : results[c].status = "normal"
    /\ results.health.score = FullScore
    /\ results.health.status = "healthy"

\* C23: on a snapshot with no firewall and no antivirus key (in particular the
\* empty snapshot) the Security analyzer classifies both as Critical, a
\* missing enabled field reading as false, so its score is at most 50 and its
\* status is Critical; on the empty snapshot the Performance and Resource
\* analyzers return score 100 with every category Normal.
C23_MissingProtectionIsCritical ==
    /\ (security_results # NoResult /\ {"firewall", "antivirus"} \cap DOMAIN metrics = {}) =>
           /\ ~security_results.firewall.enabled
           /\ security_results.firewall.status = "critical"
           /\ ~security_results.antivirus.enabled
           /\ security_results.antivirus.status = "critical"
           /\ security_results.security_score.score <= 50
           /\ security_results.security_score.status = "critical"
           /\ metrics = EmptyDict => security_results.security_score.score = 50
    /\ (performance_results # NoResult /\ metrics = EmptyDict) =>
           AllNormalFullScore(performance_results, PerfCategories)
    /\ (resource_results # NoResult /\ metrics = EmptyDict) =>
           AllNormalFullScore(resource_results, ResCategories)

\* the Security analyzer has returned on a snapshot that holds an expired
\* certificate and neither firewall nor antivirus: three Critical entries,
\* score 25
C23_Witness ==
    /\ security_results # NoResult
    /\ DOMAIN metrics = {"ssl"}
    /\ security_results.ssl.status = "critical"
    /\ security_results.firewall.status = "critical"
    /\ security_results.antivirus.status = "critical"
    /\ security_results.security_score.score = 25
    /\ security_results.security_score.status = "critical"

-----------------------------------------------------------------------------
(* Properties of the analyzers on collected snapshots, under SpecCollect *)

\* the snapshot has the usage percentages where collect_all puts them and
\* none of the keys the Security analyzer and the Swap evaluator read
ShapedAsCollected ==
    /\ "usage_percent" \in DOMAIN metrics.cpu /\ "usage" \notin DOMAIN metrics.cpu
    /\ "usage" \in DOMAIN metrics.memory.virtual /\ "usage" \notin DOMAIN metrics.memory
    /\ "usage" \in DOMAIN metrics.memory.swap
    /\ "partitions" \in DOMAIN metrics.disk /\ "usage" \notin DOMAIN metrics.disk
    /\ DOMAIN metrics \cap ({"swap"} \cup Range(SecCategories)) = {}

\* the entry holds usage 0 and is Normal
SeesNoUsage(result) ==
    result.usage = 0 /\ result.status = "normal" /\ result.issues = <<>>

\* C24: for every snapshot shaped as collect_all produces it (cpu.usage_percent,
\* memory.virtual.usage, memory.swap.usage, disk.partitions[].usage, no
\* top-level swap key, no ports, services, updates, firewall, antivirus or
\* ssl key) the usage-percentage evaluators find no usage field and return
\* usage 0 with status Normal whatever values were collected, and the
\* Security result is always firewall Critical, antivirus Critical, score 50,
\* status Critical.
C24_CollectedUsageUnseen ==
    /\ ShapedAsCollected
    /\ performance_results # NoResult =>
           /\ ~Raised(performance_results)
           /\ \A c \in {"cpu", "memory", "disk"} : SeesNoUsage(performance_results[c])
    /\ resource_results # NoResult =>
           /\ ~Raised(resource_results)
           /\ \A c \in {"disk", "memory", "swap"} : SeesNoUsage(resource_results[c])
    /\ security_results # NoResult =>
           /\ ~Raised(security_results)
           /\ security_results.firewall.status = "critical"
           /\ security_results.antivirus.status = "critical"
           /\ security_results.security_score.score = 50
           /\ security_results.security_score.status = "critical"

\* the three analyzers have returned on a collected snapshot whose CPU,
\* memory, swap and both partitions are at 95 percent: every usage entry is
\* Normal with usage 0
C24_Witness ==
    /\ performance_results # NoResult
    /\ resource_results # NoResult
    /\ security_results # NoResult
    /\ metrics.cpu.usage_percent = 95
    /\ metrics.memory.virtual.usage = 95
    /\ metrics.memory.swap.usage = 95
    /\ Len(metrics.disk.partitions) = 2
    /\ \A i \in 1..2 : metrics.disk.partitions[i].usage = 95
    /\ performance_results.cpu.status = "normal"
    /\ performance_results.health.score = FullScore
    /\ resource_results.swap.usage = 0
    /\ security_results.security_score.score = 50

-----------------------------------------------------------------------------
(* Properties of the evaluators under unordered thresholds, under SpecEval *)

\* the entry is Critical from the critical threshold on and Normal below it
CriticalOrNormal(result, u, t) ==
    /\ result.usage = u
    /\ result.status # "warning"
    /\ result.status = "critical" <=> u >= t.critical
    /\ result.status = "normal" <=> u < t.critical

\* C25: when a threshold pair has warning > critical (accepted by loading), no
\* evaluation raises and the usage-percentage evaluator never returns
\* Warning: every usage >= critical is classified Critical, also when it is
\* below warning, and every usage < critical is classified Normal.
C25_UnorderedNeverWarns ==
    /\ performance_results # NoResult =>
           /\ ~Raised(performance_results)
           /\ \A k \in {"cpu", "memory", "disk"} :
                  performance_thresholds[k].warning > performance_thresholds[k].critical
                      => CriticalOrNormal(performance_results[k], UsageOf(k),
                                          performance_thresholds[k])
    /\ resource_results # NoResult =>
           /\ ~Raised(resource_results)
           /\ \A k \in {"disk", "memory", "swap"} :
                  resource_thresholds[k].warning > resource_thresholds[k].critical
                      => CriticalOrNormal(resource_results[k], UsageOf(k),
                                          resource_thresholds[k])

\* under a swap pair configured with warning 90 and critical 70 the Resource
\* analyzer classified a usage of 75, below warning, as Critical
C25_Witness ==
    /\ resource_results # NoResult
    /\ resource_thresholds.swap = [warning |-> 90, critical |-> 70]
    /\ UsageOf("swap") = 75
    /\ resource_results.swap.status = "critical"
    /\ Len(resource_results.swap.issues) = 1

-----------------------------------------------------------------------------
(* Properties relating the Performance and Resource analyzers, under SpecEval *)

\* C26: with equal disk and memory thresholds in the two tables the Performance
\* and Resource analyzers return equal disk entries and equal memory entries
\* for every snapshot, and their process evaluators compute equal high_cpu and
\* high_memory lists, the Resource process status being Warning whenever the
\* Performance process status is Warning.
C26_OverlapAgrees ==
    (performance_results # NoResult /\ resource_results # NoResult) =>
        /\ \A k \in {"disk", "memory"} :
               performance_thresholds[k] = resource_thresholds[k]
                   => performance_results[k] = resource_results[k]
        /\ performance_results.processes.high_cpu = resource_results.processes.high_cpu
        /\ performance_results.processes.high_memory = resource_results.processes.high_memory
        /\ performance_results.processes.status = "warning"
               => resource_results.processes.status = "warning"

\* under a memory pair configured alike in both tables, both analyzers
\* returned the same Warning entry for a usage lying on the warning threshold
C26_Witness ==
    /\ performance_results # NoResult
    /\ resource_results # NoResult
    /\ config_data # EmptyDict
    /\ performance_thresholds.memory = [warning |-> 80, critical |-> 90]
    /\ resource_thresholds.memory = performance_thresholds.memory
    /\ UsageOf("memory") = 80
    /\ performance_results.memory.status = "warning"
    /\ resource_results.memory = performance_results.memory

-----------------------------------------------------------------------------
(* Properties of the security checks, under SpecMain *)

\* the checks the configuration names with the value false
ConfiguredOff ==
    IF config_data # None
       /\ "analysis" \in DOMAIN config_data
       /\ "security" \in DOMAIN config_data.analysis
       /\ "checks" \in DOMAIN config_data.analysis.security
       /\ config_data.analysis.security.checks # None
    THEN {check \in DOMAIN config_data.analysis.security.checks :
              ~config_data.analysis.security.checks[check]}
    ELSE {}

\* C27: the security-check configuration cannot disable a check: after the
\* construction of the Security analyzer with any analysis.security.checks
\* configuration all six checks (open_ports, running_services,
\* system_updates, firewall_status, antivirus_status, ssl_certificates) are
\* enabled, and analyze runs all six security evaluators and counts all six
\* in the score whatever the configuration says.
C27_ChecksCannotBeDisabled ==
    /\ (security_checks # NoResult /\ ~Raised(security_checks)) =>
           /\ DOMAIN security_checks =
                  {"open_ports", "running_services", "system_updates",
                   "firewall_status", "antivirus_status", "ssl_certificates"}
           /\ \A check \in DOMAIN security_checks : security_checks[check]
    /\ security_results # NoResult =>
           /\ CategoriesOf(security_results, "security_score") =
                  {"ports", "services", "updates", "firewall", "antivirus", "ssl"}
           /\ security_results.security_score.score
                  = ExpectedScore(security_results, "security_score")
           /\ "ports" \in DOMAIN metrics =>
                  security_results.ports.total = Len(metrics.ports)
           /\ ("firewall" \notin DOMAIN metrics \/ "enabled" \notin DOMAIN metrics.firewall) =>
                  /\ security_results.firewall.status = "critical"
                  /\ security_results.security_score.score <= FullScore - CriticalPenalty

\* under a configuration that sets open_ports and firewall_status to false
\* the analyzer was constructed with both checks enabled, and its analysis
\* flagged the vulnerable port and the missing firewall and counted both
C27_Witness ==
    /\ {"open_ports", "firewall_status"} \subseteq ConfiguredOff
    /\ security_checks # NoResult
    /\ security_checks.open_ports /\ security_checks.firewall_status
    /\ security_results # NoResult
    /\ security_results.ports.status = "warning"
    /\ security_results.firewall.status = "critical"
    /\ security_results.security_score.score = FullScore - WarningPenalty - CriticalPenalty

=============================================================================
